---- MODULE Spec2Model ----
(***************************************************************************)
(* Development-action extraction and merge: scripts/extract_pptx.py (the   *)
(* slide walk) and scripts/normalize_data.py (entity resolution, merge).   *)
(*                                                                         *)
(* Text is modelled by TLA+ strings, character by character.  The source   *)
(* keywords are Cyrillic; the strings here are their letter-for-letter     *)
(* Latin transliteration, so every length and every position is the one    *)
(* of the source text:                                                     *)
(*   a b v g d e j z i k l m n o p r s t u f h c x w y q   stand for       *)
(*   а б в г д е ж з и к л м н о п р с т у ф х ц ч ш ы ь,  and й щ ю я     *)
(*   are written i w u a.  The bullet U+2022 is written "*" (the source    *)
(*   bullet class holds both), the en dash is written "~", and the         *)
(*   vertical tab \x0b is written "\f".                                    *)
(***************************************************************************)
EXTENDS Integers, Sequences, FiniteSets, Bags, TLC

None == "<None>"

----------------------------------------------------------------------------
(* Characters and the str / re primitives the scripts use.                 *)

\* s[i:i+1], "" outside the string
CharAt(s, i) == IF 1 <= i /\ i <= Len(s) THEN SubSeq(s, i, i) ELSE ""

\* q[:n]
Take(q, n) == SubSeq(q, 1, IF n <= Len(q) THEN n ELSE Len(q))

UpperAlphabet == "ABCDEFGHIJKLMNOPQRSTUVWXYZ"
LowerAlphabet == "abcdefghijklmnopqrstuvwxyz"
DigitChars == {"0", "1", "2", "3", "4", "5", "6", "7", "8", "9"}
SpaceChars == {" ", "\t", "\n", "\r", "\f"}

UpperChars == {CharAt(UpperAlphabet, i) : i \in 1..Len(UpperAlphabet)}
LowerChars == {CharAt(LowerAlphabet, i) : i \in 1..Len(LowerAlphabet)}
WordChars == UpperChars \cup LowerChars \cup DigitChars \cup {"_"}

IsDigit(c) == c \in DigitChars
IsSpace(c) == c \in SpaceChars
IsWord(c) == c \in WordChars

\* str.lower() of one character
LowerTable ==
    [c \in UpperChars |->
        CharAt(LowerAlphabet,
               CHOOSE i \in 1..Len(UpperAlphabet) : CharAt(UpperAlphabet, i) = c)]

LowerChar(c) == IF c \in UpperChars THEN LowerTable[c] ELSE c

\* the concatenation of F(s, i) for i = lo..hi, by halving
RECURSIVE ConcatMap(_, _, _, _)
ConcatMap(F(_, _), s, lo, hi) ==
    IF lo > hi THEN ""
    ELSE IF lo = hi THEN F(s, lo)
    ELSE LET mid == (lo + hi) \div 2
         IN  ConcatMap(F, s, lo, mid) \o ConcatMap(F, s, mid + 1, hi)

lower(s) == ConcatMap(LAMBDA t, i : LowerChar(CharAt(t, i)), s, 1, Len(s))

Last(s) == CharAt(s, Len(s))
Front(s) == SubSeq(s, 1, Len(s) - 1)

RECURSIVE lstrip(_, _)
lstrip(s, chars) ==
    IF s # "" /\ Head(s) \in chars THEN lstrip(Tail(s), chars) ELSE s

RECURSIVE rstrip(_, _)
rstrip(s, chars) ==
    IF s # "" /\ Last(s) \in chars THEN rstrip(Front(s), chars) ELSE s

strip(s) == rstrip(lstrip(s, SpaceChars), SpaceChars)

\* Python's `sub in s`
Contains(s, sub) ==
    \E i \in 1..(Len(s) - Len(sub) + 1) : SubSeq(s, i, i + Len(sub) - 1) = sub

startswith(s, prefix) ==
    Len(prefix) <= Len(s) /\ SubSeq(s, 1, Len(prefix)) = prefix

\* re.sub(r'[^\w\s-]', '', text)
RemoveNonKeyChars(s) ==
    ConcatMap(LAMBDA t, i : LET c == CharAt(t, i)
                            IN  IF IsWord(c) \/ IsSpace(c) \/ c = "-" THEN c ELSE "",
              s, 1, Len(s))

\* re.sub(r"[chars]+", by, s): a run of chars becomes one `by`
CollapseRuns(s, chars, by) ==
    ConcatMap(LAMBDA t, i : IF CharAt(t, i) \notin chars THEN CharAt(t, i)
                            ELSE IF CharAt(t, i - 1) \in chars THEN ""
                            ELSE by,
              s, 1, Len(s))

\* re.sub(r'[-\s]+', '_', text)
CollapseSeparators(s) == CollapseRuns(s, SpaceChars \cup {"-"}, "_")

normalize_key(text) ==
    IF text = "" \/ text = None THEN ""
    ELSE rstrip(lstrip(CollapseSeparators(RemoveNonKeyChars(lower(strip(text)))),
                       {"_"}),
                {"_"})

----------------------------------------------------------------------------
(* difflib.SequenceMatcher(None, a, b).ratio() for strings shorter than    *)
(* the 200 characters at which the autojunk heuristic starts.              *)

Max(x, y) == IF x >= y THEN x ELSE y
Min(x, y) == IF x <= y THEN x ELSE y

\* a block of k characters starts at a[i+1] and b[j+1], inside the windows
IsBlock(a, b, i, j, k) == SubSeq(a, i + 1, i + k) = SubSeq(b, j + 1, j + k)

\* find_longest_match: the longest block; of those the earliest in a, then
\* the earliest in b.  <<i, j, k>>, k = 0 when nothing matches.
find_longest_match(a, b, alo, ahi, blo, bhi) ==
    LET Cands == {c \in (alo..(ahi - 1)) \X (blo..(bhi - 1)) \X (1..Min(ahi - alo, bhi - blo)) :
                     /\ c[1] + c[3] <= ahi
                     /\ c[2] + c[3] <= bhi
                     /\ IsBlock(a, b, c[1], c[2], c[3])}
    IN  IF Cands = {} THEN <<alo, blo, 0>>
        ELSE CHOOSE c \in Cands :
                \A d \in Cands :
                    \/ c[3] > d[3]
                    \/ c[3] = d[3] /\ c[1] < d[1]
                    \/ c[3] = d[3] /\ c[1] = d[1] /\ c[2] <= d[2]

\* get_matching_blocks: total size of the blocks found recursively left and
\* right of the longest one
RECURSIVE MatchedChars(_, _, _, _, _, _)
MatchedChars(a, b, alo, ahi, blo, bhi) ==
    IF alo >= ahi \/ blo >= bhi THEN 0
    ELSE LET m == find_longest_match(a, b, alo, ahi, blo, bhi)
         IN  IF m[3] = 0 THEN 0
             ELSE m[3] + MatchedChars(a, b, alo, m[1], blo, m[2])
                       + MatchedChars(a, b, m[1] + m[3], ahi, m[2] + m[3], bhi)

\* scores are exact fractions in lowest terms
RECURSIVE Gcd(_, _)
Gcd(x, y) == IF y = 0 THEN x ELSE Gcd(y, x % y)

Frac(n, d) == LET g == Gcd(n, d) IN [num |-> n \div g, den |-> d \div g]

ScoreGT(x, y) == x.num * y.den > y.num * x.den
ScoreGE(x, y) == x.num * y.den >= y.num * x.den
ScoreMax(x, y) == IF ScoreGE(x, y) THEN x ELSE y

\* _calculate_ratio: 2.0 * matches / length, and 1.0 when both are empty
ratio(a, b) ==
    IF Len(a) + Len(b) = 0 THEN Frac(1, 1)
    ELSE Frac(2 * MatchedChars(a, b, 0, Len(a), 0, Len(b)), Len(a) + Len(b))

similarity(a, b) == ratio(lower(a), lower(b))

----------------------------------------------------------------------------
(* normalize_data.py: alias table and entity resolution.                   *)

\* ALIASES: PPT name -> Excel name (normalized); one entry
AliasKey == "formirovanie_korporativnoi_cifrovoi_arhitektury"
AliasTarget == "razvitie_korporativnoi_cifrovoi_arhitektury"
ALIASES == (AliasKey :> AliasTarget)

apply_alias(comp_key) ==
    IF comp_key = "" THEN comp_key
    ELSE IF \E alias_key \in DOMAIN ALIASES :
                comp_key = alias_key \/ startswith(comp_key, alias_key)
         THEN ALIASES[CHOOSE alias_key \in DOMAIN ALIASES :
                         comp_key = alias_key \/ startswith(comp_key, alias_key)]
         ELSE comp_key

DefaultThreshold == Frac(8, 10)

\* comp.get("id") or normalize_key(comp.get("name", ""))
CompId(comp) == IF comp.id # "" THEN comp.id ELSE normalize_key(comp.name)

\* the loop accepting the best score whether or not it reaches the threshold
RECURSIVE FindBestMatchFromNoThreshold(_, _, _, _, _, _, _)
FindBestMatchFromNoThreshold(comp_name, comp_key, comp_list, threshold, i, best_match, best_score) ==
    IF i > Len(comp_list) THEN <<best_match, best_score>>
    ELSE LET comp == comp_list[i]
             comp_id == CompId(comp)
             score == ScoreMax(similarity(comp_name, comp.name),
                               similarity(comp_key, comp_id))
         IN  IF comp_key = comp_id THEN <<comp_id, Frac(1, 1)>>
             ELSE IF comp_key # "" /\ (Contains(comp_id, comp_key) \/ Contains(comp_key, comp_id))
             THEN <<comp_id, Frac(9, 10)>>
             ELSE IF ScoreGT(score, best_score)
             THEN FindBestMatchFromNoThreshold(comp_name, comp_key, comp_list, threshold,
                                               i + 1, comp_id, score)
             ELSE FindBestMatchFromNoThreshold(comp_name, comp_key, comp_list, threshold,
                                               i + 1, best_match, best_score)

\* the loop with `score >= best_score`: of equal scores the last one wins
RECURSIVE FindBestMatchFromLastWins(_, _, _, _, _, _, _)
FindBestMatchFromLastWins(comp_name, comp_key, comp_list, threshold, i, best_match, best_score) ==
    IF i > Len(comp_list) THEN <<best_match, best_score>>
    ELSE LET comp == comp_list[i]
             comp_id == CompId(comp)
             score == ScoreMax(similarity(comp_name, comp.name),
                               similarity(comp_key, comp_id))
         IN  IF comp_key = comp_id THEN <<comp_id, Frac(1, 1)>>
             ELSE IF comp_key # "" /\ (Contains(comp_id, comp_key) \/ Contains(comp_key, comp_id))
             THEN <<comp_id, Frac(9, 10)>>
             ELSE IF ScoreGE(score, best_score) /\ ScoreGE(score, threshold)
             THEN FindBestMatchFromLastWins(comp_name, comp_key, comp_list, threshold,
                                            i + 1, comp_id, score)
             ELSE FindBestMatchFromLastWins(comp_name, comp_key, comp_list, threshold,
                                            i + 1, best_match, best_score)

\* the for loop of find_best_match from entry i on; <<best_match, best_score>>
RECURSIVE FindBestMatchFrom(_, _, _, _, _, _, _)
FindBestMatchFrom(comp_name, comp_key, comp_list, threshold, i, best_match, best_score) ==
    IF i > Len(comp_list) THEN <<best_match, best_score>>
    ELSE LET comp == comp_list[i]
             comp_id == CompId(comp)
             score == ScoreMax(similarity(comp_name, comp.name),
                               similarity(comp_key, comp_id))
         IN  IF comp_key = comp_id THEN <<comp_id, Frac(1, 1)>>
             ELSE IF comp_key # "" /\ (Contains(comp_id, comp_key) \/ Contains(comp_key, comp_id))
             THEN <<comp_id, Frac(9, 10)>>
             ELSE IF ScoreGT(score, best_score) /\ ScoreGE(score, threshold)
             THEN FindBestMatchFrom(comp_name, comp_key, comp_list, threshold,
                                    i + 1, comp_id, score)
             ELSE FindBestMatchFrom(comp_name, comp_key, comp_list, threshold,
                                    i + 1, best_match, best_score)

find_best_match(comp_name, comp_key, comp_list, threshold) ==
    FindBestMatchFrom(comp_name,
                      IF comp_key # "" THEN comp_key ELSE normalize_key(comp_name),
                      comp_list, threshold, 1, None, Frac(0, 1))


----------------------------------------------------------------------------
(* Bounds and the catalogues the inputs are drawn from.                    *)

MaxComps == 3       \* canonical competencies in model.json
MaxSets == 2        \* raw ActionSets in actions.json
MaxSlides == 3      \* slides of the presentation
MaxRuns == 2        \* runs of the whole pipeline on the same inputs

\* competency names of the canonical list (extract_excel.py: id = normalize_key(name))
CanonNames == {"Kod", "Kod b", "Kod c", "Planet", "Plan er"}

\* extraction-time names of raw ActionSets
RawNames == {"Kod", "Kod a", "Ko", "Kot b", "Planer", "Zadaxa"}

Competency(name) == [id |-> normalize_key(name), name |-> name]

Range(f) == {f[x] : x \in DOMAIN f}

\* sequences without repetition, of at most n elements of S
RECURSIVE DistinctSeqs(_, _)
DistinctSeqs(S, n) ==
    IF n = 0 THEN {<< >>}
    ELSE LET shorter == DistinctSeqs(S, n - 1)
         IN  shorter \cup
             UNION {{Append(q, x) : x \in S \ Range(q)} :
                        q \in {r \in shorter : Len(r) = n - 1}}

\* cluster and block names of model.json
ClusterNames == {"Klaster A"}
BlockNames == {"Blok 1"}

ModelOf(names) ==
    [competencies |-> [i \in 1..Len(names) |-> Competency(names[i])],
     clusters |-> ClusterNames,
     blocks |-> BlockNames]

Models == {ModelOf(names) : names \in DistinctSeqs(CanonNames, MaxComps)}

\* the canonical lists the merge is run against
MergeModels ==
    {ModelOf(names) : names \in DistinctSeqs(CanonNames \ {"Plan er"}, MaxComps)}

\* the canonical lists the slide walk is run against
WalkModels == {ModelOf(names) : names \in {<< >>, <<"Kod b", "Kod c">>}}

\* shapes and slides of the presentation
TextShape(top, left, text) ==
    [kind |-> "text", top |-> top, left |-> left, text |-> text, cells |-> << >>]
TableShape(top, left, cells) ==
    [kind |-> "table", top |-> top, left |-> left, text |-> "", cells |-> cells]
Picture(top, left) ==
    [kind |-> "picture", top |-> top, left |-> left, text |-> "", cells |-> << >>]

SlideCatalogue ==
    {[title |-> 1,
      shapes |-> <<TextShape(0, 0, "Kod b"),
                   TextShape(1, 0, "Urovenq 2\n* Izuxitq osnovy\nna praktike.")>>],
     [title |-> 0,
      shapes |-> <<TextShape(1, 0, "20% razvitie na raboxem meste\nProvesti revu koda.\nProvesti revu koda.")>>],
     [title |-> 1,
      shapes |-> <<TextShape(0, 0, "Kot b"),
                   TextShape(1, 0, "Urovenq 7\n1) Napisatq testy k kodu")>>],
     [title |-> 1,
      shapes |-> <<TextShape(0, 0, "Soderjanie"),
                   TextShape(1, 0, "Kod b\nKod c")>>],
     [title |-> 2,
      shapes |-> <<Picture(0, 0),
                   TextShape(0, 1, "Planer"),
                   TableShape(1, 0, <<"Sostavitq plan rabot!", "Opisanie urovna 3",
                                      "Utoxnitq sroki rabot.">>)>>]}

Documents == UNION {[1..n -> SlideCatalogue] : n \in 0..MaxSlides}

----------------------------------------------------------------------------
(* ActionSets: extract_all_actions lines 313-322 and 335-353.              *)

TypeKeys == {"70", "20", "10"}

EmptyActionSet(comp_key, competency_name) ==
    [key |-> comp_key,
     competency_name |-> competency_name,
     actions_by_level |-> << >>,
     actions_by_type |-> [t \in TypeKeys |-> << >>],
     all_actions |-> << >>]

\* action.get("level") or "all"
LevelKey(action) ==
    IF action.level # None /\ action.level # "" THEN action.level ELSE "all"

\* dict[key].append(x), the list created when the key is missing
AppendTo(dict, key, x) ==
    IF key \in DOMAIN dict
    THEN [dict EXCEPT ![key] = Append(@, x)]
    ELSE dict @@ (key :> <<x>>)

\* the body with the action filed under "all" as well as under its level
AddActionAlsoUnderAll(set, action) ==
    LET action_obj == [text |-> action.text, type |-> action.type]
    IN  [set EXCEPT
            !.actions_by_level = AppendTo(AppendTo(@, LevelKey(action), action_obj),
                                          "all", action_obj),
            !.actions_by_type =
                IF action.type # None /\ action.type \in TypeKeys
                THEN [@ EXCEPT ![action.type] = Append(@, action_obj)]
                ELSE @,
            !.all_actions = Append(@, action_obj)]

\* the body of `for action in actions`
AddAction(set, action) ==
    LET action_obj == [text |-> action.text, type |-> action.type]
    IN  [set EXCEPT
            !.actions_by_level = AppendTo(@, LevelKey(action), action_obj),
            !.actions_by_type =
                IF action.type # None /\ action.type \in TypeKeys
                THEN [@ EXCEPT ![action.type] = Append(@, action_obj)]
                ELSE @,
            !.all_actions = Append(@, action_obj)]

RECURSIVE AddActions(_, _)
AddActions(set, actions) ==
    IF actions = << >> THEN set
    ELSE AddActions(AddAction(set, Head(actions)), Tail(actions))


----------------------------------------------------------------------------
(* extract_pptx.py: text normalisation and the text of a shape.            *)

\* s.replace(c, by) for every c of chars
ReplaceChars(s, chars, by) ==
    ConcatMap(LAMBDA t, i : IF CharAt(t, i) \in chars THEN by ELSE CharAt(t, i),
              s, 1, Len(s))

\* lines 45-46
FoldLinebreaks(value, keep_linebreaks) ==
    IF ~keep_linebreaks THEN ReplaceChars(value, {"\n"}, " ") ELSE value

\* line breaks left as they are in both modes
CollapseLinebreaksNever(value, keep_linebreaks) == value

\* lines 48-49
CollapseLinebreaks(value, keep_linebreaks) ==
    IF keep_linebreaks THEN CollapseRuns(value, {"\n"}, "\n") ELSE value

clean_text(text, keep_linebreaks) ==
    IF text = None THEN ""
    ELSE strip(CollapseLinebreaks(
                   CollapseRuns(FoldLinebreaks(ReplaceChars(text, {"\f", "\r"}, "\n"),
                                               keep_linebreaks),
                                {" ", "\t"}, " "),
                   keep_linebreaks))

\* sep.join(parts)
RECURSIVE join(_, _)
join(sep, parts) ==
    IF parts = << >> THEN ""
    ELSE IF Len(parts) = 1 THEN parts[1]
    ELSE parts[1] \o sep \o join(sep, Tail(parts))

\* s.split(sep) for a one-character separator
RECURSIVE split(_, _)
split(s, sep) ==
    LET seps == {i \in 1..Len(s) : CharAt(s, i) = sep}
        first == CHOOSE i \in seps : \A j \in seps : i <= j
    IN  IF seps = {} THEN <<s>>
        ELSE <<SubSeq(s, 1, first - 1)>> \o
             split(IF first = Len(s) THEN "" ELSE SubSeq(s, first + 1, Len(s)), sep)

\* len(s.split()): the number of whitespace-separated words
CountWords(s) ==
    Cardinality({i \in 1..Len(s) :
                    ~IsSpace(CharAt(s, i)) /\ (i = 1 \/ IsSpace(CharAt(s, i - 1)))})

\* A shape is [kind, top, left, text, cells]: kind "text" has a text frame
\* and a text, kind "table" has cells (row by row), kind "picture" neither.
has_text_frame(shape) == shape.kind = "text"
has_table(shape) == shape.kind = "table"

extract_text_from_shape(shape) ==
    LET NonEmpty(t) == t # ""
        cell_parts == IF has_table(shape) THEN SelectSeq(shape.cells, NonEmpty) ELSE << >>
        text_parts == IF shape.kind = "text" THEN Append(cell_parts, shape.text)
                      ELSE cell_parts
    IN  clean_text(join("\n", text_parts), TRUE)

----------------------------------------------------------------------------
(* Slide classification and the markers.                                   *)

TitleKeywords ==
    {"soderjanie", "menu razvivauwih deistvii", "celq menu",
     "iz xego sostoit", "kak polqzovatqsa", "rukovodstvo",
     "slovarq terminov", "perexenq vnewnih obrazovatelqnyh resursov"}

is_title_slide(text) ==
    \E keyword \in TitleKeywords : Contains(lower(text), keyword)

is_resources_slide(text) ==
    \/ Contains(lower(text), "spisok resursov")
    \/ Contains(lower(text), "perexenq vnewnih obrazovatelqnyh resursov")

is_glossary_slide(text) == Contains(lower(text), "slovarq terminov")

Phrase70 == "obuxenie na praktike"
Phrase20 == "razvitie na raboxem meste"
Phrase10 == "obuxenie i samorazvitie"

\* the first position >= i of s that holds no whitespace (Len(s) + 1 if none)
RECURSIVE SkipSpaces(_, _)
SkipSpaces(s, i) ==
    IF i <= Len(s) /\ IsSpace(CharAt(s, i)) THEN SkipSpaces(s, i + 1) ELSE i

\* the first position >= i of s that holds no digit
RECURSIVE SkipDigits(_, _)
SkipDigits(s, i) ==
    IF i <= Len(s) /\ IsDigit(CharAt(s, i)) THEN SkipDigits(s, i + 1) ELSE i

StartsAt(s, i, word) ==
    /\ 1 <= i
    /\ i + Len(word) - 1 <= Len(s)
    /\ SubSeq(s, i, i + Len(word) - 1) = word

\* re.search(r'\bNN\s*%', s)
HasPercent(s, nn) ==
    \E i \in 1..Len(s) :
        /\ StartsAt(s, i, nn)
        /\ (i = 1 \/ ~IsWord(CharAt(s, i - 1)))
        /\ StartsAt(s, SkipSpaces(s, i + Len(nn)), "%")

\* re.search(r'\bNN\s*%|\bNN\s*процентов', s)
HasPercentOrWord(s, nn) ==
    \E i \in 1..Len(s) :
        /\ StartsAt(s, i, nn)
        /\ (i = 1 \/ ~IsWord(CharAt(s, i - 1)))
        /\ \/ StartsAt(s, SkipSpaces(s, i + Len(nn)), "%")
           \/ StartsAt(s, SkipSpaces(s, i + Len(nn)), "procentov")

HasTypePhrase(s) ==
    Contains(s, Phrase70) \/ Contains(s, Phrase20) \/ Contains(s, Phrase10)

\* re.search(r'(уровень|описание уровня)\s*(\d)', s): the start positions
LevelMatchStarts(s) ==
    {i \in 1..Len(s) :
        \E word \in {"urovenq", "opisanie urovna"} :
            /\ StartsAt(s, i, word)
            /\ SkipSpaces(s, i + Len(word)) <= Len(s)
            /\ IsDigit(CharAt(s, SkipSpaces(s, i + Len(word))))}

\* level_match.group(2) of the leftmost match
LevelMatchDigit(s) ==
    LET i == CHOOSE m \in LevelMatchStarts(s) : \A n \in LevelMatchStarts(s) : m <= n
        word == IF StartsAt(s, i, "urovenq") THEN "urovenq" ELSE "opisanie urovna"
    IN  CharAt(s, SkipSpaces(s, i + Len(word)))


----------------------------------------------------------------------------
(* The gazetteer main() loads from model.json into the module globals:    *)
(* KNOWN_COMPETENCIES (a dict, normalized name -> name, here the sequence  *)
(* of its items in insertion order), KNOWN_CLUSTERS and KNOWN_BLOCKS.      *)
(* The operators below take the three as the record `known`.              *)

RECURSIVE KnownFrom(_, _)
KnownFrom(comps, i) ==
    IF i > Len(comps) THEN << >>
    ELSE LET comp_norm == normalize_key(comps[i].name)
             rest == KnownFrom(comps, i + 1)
         IN  IF comp_norm = "" THEN rest
             ELSE <<[norm |-> comp_norm, name |-> comps[i].name]>> \o rest

\* main() lines 368-380; md is model.json
LoadKnown(md) ==
    [competencies |-> KnownFrom(md.competencies, 1),
     clusters |-> {normalize_key(c) : c \in md.clusters},
     blocks |-> {normalize_key(b) : b \in md.blocks}]

InKnownCompetencies(known, key) ==
    \E i \in DOMAIN known.competencies : known.competencies[i].norm = key

KnownCompetencyName(known, key) ==
    LET items == known.competencies
    IN  items[CHOOSE i \in DOMAIN items : items[i].norm = key].name

\* the known competencies left in the order of the dict
SortedAsDeclared(items) == items

\* sorted(KNOWN_COMPETENCIES.items(), key=lambda x: len(x[0]), reverse=True):
\* stable, so equal lengths keep the dict order
RECURSIVE SortedByLenDesc(_)
SortedByLenDesc(items) ==
    IF items = << >> THEN << >>
    ELSE LET i == CHOOSE m \in DOMAIN items :
                     /\ \A n \in DOMAIN items : Len(items[m].norm) >= Len(items[n].norm)
                     /\ \A n \in 1..(m - 1) : Len(items[n].norm) < Len(items[m].norm)
         IN  <<items[i]>> \o
             SortedByLenDesc(SubSeq(items, 1, i - 1) \o SubSeq(items, i + 1, Len(items)))

----------------------------------------------------------------------------
(* extract_competency_name_from_slide.  A slide is [title, shapes]: title  *)
(* is the index of the title placeholder in shapes, 0 when there is none.  *)

\* lines 280-281 and 96-97: the cleaned text of the title placeholder
TitleText(slide) ==
    IF slide.title = 0 THEN ""
    ELSE clean_text(slide.shapes[slide.title].text, FALSE)

\* a cluster, block or type title decides nothing: the shapes are tried
NameFromTitleKeyFallingThrough(title, title_key, known) ==
    IF InKnownCompetencies(known, title_key)
    THEN [decided |-> TRUE, name |-> title]
    ELSE IF title_key \in known.clusters \/ title_key \in known.blocks
    THEN [decided |-> FALSE, name |-> None]
    ELSE IF HasTypePhrase(lower(title))
    THEN [decided |-> FALSE, name |-> None]
    ELSE [decided |-> TRUE, name |-> title]

\* lines 99-106
NameFromTitleKey(title, title_key, known) ==
    IF InKnownCompetencies(known, title_key)
    THEN [decided |-> TRUE, name |-> title]
    ELSE IF title_key \in known.clusters \/ title_key \in known.blocks
    THEN [decided |-> TRUE, name |-> None]
    ELSE IF HasTypePhrase(lower(title))
    THEN [decided |-> TRUE, name |-> None]
    ELSE [decided |-> TRUE, name |-> title]

\* lines 98-106
NameFromTitleText(title, known) ==
    IF title = "" \/ is_title_slide(title)
    THEN [decided |-> FALSE, name |-> None]
    ELSE NameFromTitleKey(title, normalize_key(title), known)

\* lines 96-106: [decided, name]; not decided = fall through to the shapes
NameFromTitle(slide, known) == NameFromTitleText(TitleText(slide), known)

\* line 113
CandidateText(wanted, text) ==
    IF wanted /\ text # "" /\ Len(text) > 5 /\ Len(text) < 100 THEN <<text>> ELSE << >>

\* lines 109-114: the candidate texts, in shape order
RECURSIVE TextShapesFrom(_, _)
TextShapesFrom(slide, i) ==
    IF i > Len(slide.shapes) THEN << >>
    ELSE CandidateText(has_text_frame(slide.shapes[i]) /\ i # slide.title,
                       clean_text(extract_text_from_shape(slide.shapes[i]), FALSE))
         \o TextShapesFrom(slide, i + 1)

\* lines 118-129 for one text: the name it yields, None for `continue`
NameFromText(text, text_lower, text_key, known) ==
    IF HasTypePhrase(text_lower) THEN None
    ELSE IF HasPercent(text_lower, "70") \/ HasPercent(text_lower, "20")
            \/ HasPercent(text_lower, "10")
    THEN None
    ELSE IF InKnownCompetencies(known, text_key)
    THEN KnownCompetencyName(known, text_key)
    ELSE IF text_key \in known.clusters \/ text_key \in known.blocks
    THEN None
    ELSE IF ~is_title_slide(text) /\ Len(text) < 80
    THEN text
    ELSE None

\* the first of the two that is a name
FirstName(name, otherwise) == IF name # None THEN name ELSE otherwise

\* lines 117-129: the first usable candidate of texts, None if there is none
RECURSIVE NameFromTexts(_, _)
NameFromTexts(texts, known) ==
    IF texts = << >> THEN None
    ELSE FirstName(NameFromText(Head(texts), lower(Head(texts)),
                                normalize_key(Head(texts)), known),
                   NameFromTexts(Tail(texts), known))

\* line 136
TextIfAny(wanted, text) == IF wanted /\ text # "" THEN <<text>> ELSE << >>

\* lines 132-137
RECURSIVE SlideTextsFrom(_, _)
SlideTextsFrom(slide, i) ==
    IF i > Len(slide.shapes) THEN << >>
    ELSE TextIfAny(has_text_frame(slide.shapes[i]) \/ has_table(slide.shapes[i]),
                   clean_text(extract_text_from_shape(slide.shapes[i]), FALSE))
         \o SlideTextsFrom(slide, i + 1)

\* lines 140-142
RECURSIVE NameFromKnown(_, _)
NameFromKnown(items, joined_norm) ==
    IF items = << >> THEN None
    ELSE IF Head(items).norm # "" /\ Contains(joined_norm, Head(items).norm)
    THEN Head(items).name
    ELSE NameFromKnown(Tail(items), joined_norm)

\* lines 138-144
NameFromSlideTexts(slide_texts, known) ==
    IF slide_texts # << >>
    THEN NameFromKnown(SortedByLenDesc(known.competencies),
                       normalize_key(join(" ", slide_texts)))
    ELSE None

\* lines 108-144: what the shapes yield when the title decides nothing
NameFromShapes(slide, known) ==
    FirstName(NameFromTexts(Take(TextShapesFrom(slide, 1), 3), known),
              NameFromSlideTexts(SlideTextsFrom(slide, 1), known))

NameAfterTitle(fromTitle, slide, known) ==
    IF fromTitle.decided THEN fromTitle.name ELSE NameFromShapes(slide, known)

extract_competency_name_from_slide(slide, known) ==
    NameAfterTitle(NameFromTitle(slide, known), slide, known)


----------------------------------------------------------------------------
(* extract_actions_from_slide.                                             *)

EXCLUDED_ACTIONS ==
    {"naxatq_formulirovatq_zaprosy_na_dannye_v_strukturirovannom_vide_kakaa_celq_kakoi_vopros_nujno_otvetitq_kakie_pola_kolonki_nujny_za_kakoi_period_kakie_filqtryrazrezy_kakoi_format_vyvoda",
     "regularno_obsujdatq_s_analitikami_kakie_dannye_realqno_dostupny_kakie_estq_ogranixenia_po_kaxestvuxastotetoxnosti_skolqko_vremeni_zaimet_realizacia",
     "prinatq_uxastie_v_soglasovanii_regularnogo_ejenedelqnogoejemesaxnogo_otxeta_sovmestno_opredelitq_kakie_pokazateli_i_razrezy_nujny_dla_upravlenia",
     "proveratq_poluxennye_vygruzki_i_otxety_sootvetstvuut_li_oni_trebovaniam_net_li_owibok"}

BulletChars == {"*", "-"}
DashChars == {"-", "~"}

\* re.match(r'^[••\-\*]', s) or re.match(r'^\d+[\.\)]', s)
IsBulletLine(raw_line) ==
    \/ CharAt(raw_line, 1) \in BulletChars
    \/ /\ IsDigit(CharAt(raw_line, 1))
       /\ CharAt(raw_line, SkipDigits(raw_line, 1)) \in {".", ")"}

\* s[i:]
DropTo(s, i) == IF i > Len(s) THEN "" ELSE SubSeq(s, i, Len(s))

\* re.sub(r'^[••\-\*]+\s*', '', line)
StripBullets(line) ==
    IF CharAt(line, 1) \in BulletChars
    THEN lstrip(lstrip(line, BulletChars), SpaceChars)
    ELSE line

\* re.sub(r'^\d+[\.\)]\s*', '', line)
StripNumbering(line) ==
    LET j == SkipDigits(line, 1)
    IN  IF j > 1 /\ CharAt(line, j) \in {".", ")"}
        THEN DropTo(line, SkipSpaces(line, j + 1))
        ELSE line

\* re.sub(r'^\d+\s*[-–]\s*', '', line)
StripNumberDash(line) ==
    LET j == SkipSpaces(line, SkipDigits(line, 1))
    IN  IF SkipDigits(line, 1) > 1 /\ CharAt(line, j) \in DashChars
        THEN DropTo(line, SkipSpaces(line, j + 1))
        ELSE line

\* re.match of words separated by \s* (minGap = 0) or \s+ (minGap = 1)
RECURSIVE MatchWords(_, _, _, _)
MatchWords(s, i, words, minGap) ==
    IF words = << >> THEN TRUE
    ELSE /\ StartsAt(s, i, Head(words))
         /\ \/ Len(words) = 1
            \/ LET j == i + Len(Head(words))
                   k == SkipSpaces(s, j)
               IN  k - j >= minGap /\ MatchWords(s, k, Tail(words), minGap)

\* skip_patterns, matched at the start of the lowered line
MatchesSkipPattern(s) ==
    \/ StartsAt(s, 1, "urovenq") /\ IsDigit(CharAt(s, SkipSpaces(s, Len("urovenq") + 1)))
    \/ MatchWords(s, 1, <<"opisanie", "urovna">>, 0)
    \/ MatchWords(s, 1, <<"celevoi", "urovenq">>, 0)
    \/ MatchWords(s, 1, <<"spisok", "resursov">>, 0)
    \/ MatchWords(s, 1, <<"resursy", "dla">>, 0)
    \/ StartsAt(s, 1, "kniga")
    \/ StartsAt(s, 1, "kurs")
    \/ MatchWords(s, 1, <<"obuxenie", "na", "praktike">>, 1)
    \/ MatchWords(s, 1, <<"razvitie", "na", "raboxem", "meste">>, 1)
    \/ MatchWords(s, 1, <<"obuxenie", "i", "samorazvitie">>, 1)
    \/ s # "" /\ SkipDigits(s, 1) = Len(s) + 1

\* lines 160-171: the type every line of the slide falls back to
DefaultType(joined_text, initial_type) ==
    LET has70 == HasPercentOrWord(joined_text, "70") \/ Contains(joined_text, Phrase70)
        has20 == HasPercentOrWord(joined_text, "20") \/ Contains(joined_text, Phrase20)
        has10 == HasPercentOrWord(joined_text, "10") \/ Contains(joined_text, Phrase10)
    IN  IF initial_type # None THEN initial_type
        ELSE IF has70 /\ ~has20 /\ ~has10 THEN "70"
        ELSE IF has20 /\ ~has70 /\ ~has10 THEN "20"
        ELSE IF has10 /\ ~has70 /\ ~has20 THEN "10"
        ELSE None

\* the effective type given to the action only, the running type left as
\* it was
EmitActionKeepingRunningType(st, is_bullet, line_clean, action_type) ==
    IF /\ st.actions # << >> /\ ~is_bullet
       /\ st.actions[Len(st.actions)].text # ""
       /\ Last(st.actions[Len(st.actions)].text) \notin {".", "!", "?"}
       /\ CountWords(line_clean) <= 4
    THEN [st EXCEPT !.actions[Len(st.actions)].text = strip(@ \o " " \o line_clean)]
    ELSE IF line_clean \in st.seen
    THEN st
    ELSE [st EXCEPT !.seen = @ \cup {line_clean},
                    !.actions = Append(@, [text |-> line_clean,
                                           level |-> st.level,
                                           type |-> action_type])]

\* the merge stamping the running level and type on the absorbing action
EmitActionRestamping(st, is_bullet, line_clean, action_type) ==
    IF /\ st.actions # << >> /\ ~is_bullet
       /\ st.actions[Len(st.actions)].text # ""
       /\ Last(st.actions[Len(st.actions)].text) \notin {".", "!", "?"}
       /\ CountWords(line_clean) <= 4
    THEN [st EXCEPT !.action_type = action_type,
                    !.actions[Len(st.actions)] =
                        [text |-> strip(@.text \o " " \o line_clean),
                         level |-> st.level,
                         type |-> action_type]]
    ELSE IF line_clean \in st.seen
    THEN [st EXCEPT !.action_type = action_type]
    ELSE [st EXCEPT !.action_type = action_type,
                    !.seen = @ \cup {line_clean},
                    !.actions = Append(@, [text |-> line_clean,
                                           level |-> st.level,
                                           type |-> action_type])]

\* lines 247-266: the line is an action; st = [actions, level, action_type, seen]
EmitAction(st, is_bullet, line_clean, action_type) ==
    IF /\ st.actions # << >> /\ ~is_bullet
       /\ st.actions[Len(st.actions)].text # ""
       /\ Last(st.actions[Len(st.actions)].text) \notin {".", "!", "?"}
       /\ CountWords(line_clean) <= 4
    THEN [st EXCEPT !.action_type = action_type,
                    !.actions[Len(st.actions)].text = strip(@ \o " " \o line_clean)]
    ELSE IF line_clean \in st.seen
    THEN [st EXCEPT !.action_type = action_type]
    ELSE [st EXCEPT !.action_type = action_type,
                    !.seen = @ \cup {line_clean},
                    !.actions = Append(@, [text |-> line_clean,
                                           level |-> st.level,
                                           type |-> action_type])]

\* no fixed type when the slide has no default either
TypeOrDefaultWithoutFallback(action_type, default_type) ==
    IF action_type # None THEN action_type
    ELSE IF default_type # None /\ default_type # "" THEN default_type
    ELSE None

\* lines 247-248
TypeOrDefault(action_type, default_type) ==
    IF action_type # None THEN action_type
    ELSE IF default_type # None /\ default_type # "" THEN default_type
    ELSE "70"

\* lines 239-266
ProcessKeyed(st, is_bullet, line_clean, line_key, default_type, known) ==
    IF InKnownCompetencies(known, line_key) THEN st
    ELSE IF line_key \in known.clusters \/ line_key \in known.blocks THEN st
    ELSE IF line_key \in EXCLUDED_ACTIONS THEN st
    ELSE EmitAction(st, is_bullet, line_clean, TypeOrDefault(st.action_type, default_type))

\* lines 234-238 on the lowered line
IsNonAction(s) ==
    \/ MatchesSkipPattern(s)
    \/ Contains(s, "slovarq terminov")
    \/ Contains(s, "spisok resursov")

\* the stripped line tested against 5 characters instead of 10
ProcessStrippedShorter(st, is_bullet, line_clean, default_type, known) ==
    IF Len(line_clean) < 5 THEN st
    ELSE IF IsNonAction(lower(line_clean)) THEN st
    ELSE ProcessKeyed(st, is_bullet, line_clean, normalize_key(line_clean),
                      default_type, known)

\* lines 217-266
ProcessStripped(st, is_bullet, line_clean, default_type, known) ==
    IF Len(line_clean) < 10 THEN st
    ELSE IF IsNonAction(lower(line_clean)) THEN st
    ELSE ProcessKeyed(st, is_bullet, line_clean, normalize_key(line_clean),
                      default_type, known)

\* the type markers tested before the level marker
ProcessMarkersTypeFirst(st, is_bullet, line, line_lower, default_type, known) ==
    IF HasPercentOrWord(line_lower, "70") \/ Contains(line_lower, Phrase70)
    THEN [st EXCEPT !.action_type = "70"]
    ELSE IF HasPercentOrWord(line_lower, "20") \/ Contains(line_lower, Phrase20)
    THEN [st EXCEPT !.action_type = "20"]
    ELSE IF HasPercentOrWord(line_lower, "10") \/ Contains(line_lower, Phrase10)
    THEN [st EXCEPT !.action_type = "10"]
    ELSE IF LevelMatchStarts(line_lower) # {}
    THEN [st EXCEPT !.level = LevelMatchDigit(line_lower)]
    ELSE IF Len(line) < 10 THEN st
    ELSE ProcessStripped(st, is_bullet,
                         StripNumberDash(StripNumbering(StripBullets(line))),
                         default_type, known)

\* the level marker with the running type cleared as well
ProcessMarkersLevelClearsType(st, is_bullet, line, line_lower, default_type, known) ==
    IF LevelMatchStarts(line_lower) # {}
    THEN [st EXCEPT !.level = LevelMatchDigit(line_lower), !.action_type = None]
    ELSE IF HasPercentOrWord(line_lower, "70") \/ Contains(line_lower, Phrase70)
    THEN [st EXCEPT !.action_type = "70"]
    ELSE IF HasPercentOrWord(line_lower, "20") \/ Contains(line_lower, Phrase20)
    THEN [st EXCEPT !.action_type = "20"]
    ELSE IF HasPercentOrWord(line_lower, "10") \/ Contains(line_lower, Phrase10)
    THEN [st EXCEPT !.action_type = "10"]
    ELSE IF Len(line) < 10 THEN st
    ELSE ProcessStripped(st, is_bullet,
                         StripNumberDash(StripNumbering(StripBullets(line))),
                         default_type, known)

\* the type markers with the running level cleared as well
ProcessMarkersTypeClearsLevel(st, is_bullet, line, line_lower, default_type, known) ==
    IF LevelMatchStarts(line_lower) # {}
    THEN [st EXCEPT !.level = LevelMatchDigit(line_lower)]
    ELSE IF HasPercentOrWord(line_lower, "70") \/ Contains(line_lower, Phrase70)
    THEN [st EXCEPT !.action_type = "70", !.level = None]
    ELSE IF HasPercentOrWord(line_lower, "20") \/ Contains(line_lower, Phrase20)
    THEN [st EXCEPT !.action_type = "20", !.level = None]
    ELSE IF HasPercentOrWord(line_lower, "10") \/ Contains(line_lower, Phrase10)
    THEN [st EXCEPT !.action_type = "10", !.level = None]
    ELSE IF Len(line) < 10 THEN st
    ELSE ProcessStripped(st, is_bullet,
                         StripNumberDash(StripNumbering(StripBullets(line))),
                         default_type, known)

\* lines 192-266
ProcessMarkers(st, is_bullet, line, line_lower, default_type, known) ==
    IF LevelMatchStarts(line_lower) # {}
    THEN [st EXCEPT !.level = LevelMatchDigit(line_lower)]
    ELSE IF HasPercentOrWord(line_lower, "70") \/ Contains(line_lower, Phrase70)
    THEN [st EXCEPT !.action_type = "70"]
    ELSE IF HasPercentOrWord(line_lower, "20") \/ Contains(line_lower, Phrase20)
    THEN [st EXCEPT !.action_type = "20"]
    ELSE IF HasPercentOrWord(line_lower, "10") \/ Contains(line_lower, Phrase10)
    THEN [st EXCEPT !.action_type = "10"]
    ELSE IF Len(line) < 10 THEN st
    ELSE ProcessStripped(st, is_bullet,
                         StripNumberDash(StripNumbering(StripBullets(line))),
                         default_type, known)

\* lines 186-266
ProcessCleaned(st, is_bullet, line, default_type, known) ==
    IF line = "" THEN st
    ELSE ProcessMarkers(st, is_bullet, line, lower(line), default_type, known)

\* lines 182-266, the body of `for line in lines`
ProcessLine(st, rawtext, default_type, known) ==
    ProcessCleaned(st, IsBulletLine(strip(rawtext)), clean_text(rawtext, FALSE),
                   default_type, known)

RECURSIVE ProcessLines(_, _, _, _)
ProcessLines(st, lines, default_type, known) ==
    IF lines = << >> THEN st
    ELSE ProcessLines(ProcessLine(st, Head(lines), default_type, known),
                      Tail(lines), default_type, known)

\* lines 157-158
PositionedText(wanted, shape, text) ==
    IF wanted /\ text # ""
    THEN <<[top |-> shape.top, left |-> shape.left, text |-> text]>>
    ELSE << >>

\* lines 154-158: (top, left, text) of the shapes that carry text
RECURSIVE AllTextFrom(_, _)
AllTextFrom(slide, i) ==
    IF i > Len(slide.shapes) THEN << >>
    ELSE PositionedText(has_text_frame(slide.shapes[i]) \/ has_table(slide.shapes[i]),
                        slide.shapes[i], extract_text_from_shape(slide.shapes[i]))
         \o AllTextFrom(slide, i + 1)

\* sorted(all_text, key=lambda x: (x[0], x[1])): stable
RECURSIVE SortedByPosition(_)
SortedByPosition(items) ==
    IF items = << >> THEN << >>
    ELSE LET Before(a, b) == a.top < b.top \/ (a.top = b.top /\ a.left < b.left)
             i == CHOOSE m \in DOMAIN items :
                     /\ \A n \in DOMAIN items : ~Before(items[n], items[m])
                     /\ \A n \in 1..(m - 1) : Before(items[m], items[n])
         IN  <<items[i]>> \o
             SortedByPosition(SubSeq(items, 1, i - 1) \o SubSeq(items, i + 1, Len(items)))

\* lines 175-181: the text that is the competency name is passed over
ProcessText(st, text, competency_name, default_type, known) ==
    IF competency_name # None /\ competency_name # ""
       /\ normalize_key(text) = normalize_key(competency_name)
    THEN st
    ELSE ProcessLines(st, split(text, "\n"), default_type, known)

\* lines 174-266, the loop `for _, _, text in sorted(...)`
RECURSIVE ProcessTexts(_, _, _, _, _)
ProcessTexts(st, items, competency_name, default_type, known) ==
    IF items = << >> THEN st
    ELSE ProcessTexts(ProcessText(st, Head(items).text, competency_name,
                                  default_type, known),
                      Tail(items), competency_name, default_type, known)

\* line 268: [actions, action_type, level]
Returned(st) ==
    [actions |-> st.actions, action_type |-> st.action_type, level |-> st.level]

\* line 160
JoinedLower(all_text) ==
    lower(join("\n", [i \in DOMAIN all_text |-> all_text[i].text]))

\* lines 148-151 and 160-268
ActionsFromTexts(all_text, competency_name, initial_type, initial_level, known) ==
    Returned(ProcessTexts([actions |-> << >>, level |-> initial_level,
                           action_type |-> initial_type, seen |-> {}],
                          SortedByPosition(all_text), competency_name,
                          DefaultType(JoinedLower(all_text), initial_type), known))

extract_actions_from_slide(slide, competency_name, initial_type, initial_level, known) ==
    ActionsFromTexts(AllTextFrom(slide, 1), competency_name, initial_type,
                     initial_level, known)


----------------------------------------------------------------------------
(* extract_all_actions: the body of `for slide_idx, slide in ...`.         *)
(* w = [all_actions, current_competency, current_level, current_type];    *)
(* all_actions is the dict as the sequence of its values in insertion     *)
(* order, each value carrying its key.                                     *)

HasKey(sets, key) == \E i \in DOMAIN sets : sets[i].key = key
KeyIndex(sets, key) == CHOOSE i \in DOMAIN sets : sets[i].key = key

\* lines 283-288: the texts of the shapes that have a text frame
RECURSIVE SlideAllText(_, _)
SlideAllText(slide, i) ==
    IF i > Len(slide.shapes) THEN << >>
    ELSE TextIfAny(has_text_frame(slide.shapes[i]),
                   extract_text_from_shape(slide.shapes[i]))
         \o SlideAllText(slide, i + 1)

\* lines 292-296
SkipByText(slide_text, joined_text) ==
    \/ is_title_slide(slide_text)
    \/ is_resources_slide(joined_text)
    \/ is_glossary_slide(joined_text)
    \/ /\ slide_text = ""
       /\ \/ Contains(lower(joined_text), "soderjanie")
          \/ Contains(lower(joined_text), "menu razvivauwih deistvii")

\* lines 279-297
IsSkipSlide(slide) == SkipByText(TitleText(slide), join("\n", SlideAllText(slide, 1)))

\* lines 307-308
KnownNameOr(known, comp_key, found) ==
    IF InKnownCompetencies(known, comp_key)
    THEN KnownCompetencyName(known, comp_key)
    ELSE found

\* the competency entered with a fresh ActionSet in place of the one it has
EnterUnderKeyFresh(w, comp_key, competency_name) ==
    [w EXCEPT
        !.current_competency = competency_name,
        !.current_level = None,
        !.current_type = None,
        !.all_actions =
            IF HasKey(@, comp_key)
            THEN [@ EXCEPT ![KeyIndex(@, comp_key)] =
                               EmptyActionSet(comp_key, competency_name)]
            ELSE Append(@, EmptyActionSet(comp_key, competency_name))]

\* lines 309-322
EnterUnderKey(w, comp_key, competency_name) ==
    [w EXCEPT
        !.current_competency = competency_name,
        !.current_level = None,
        !.current_type = None,
        !.all_actions = IF HasKey(@, comp_key) THEN @
                        ELSE Append(@, EmptyActionSet(comp_key, competency_name))]

\* lines 307-322
EnterKeyed(w, found, comp_key, known) ==
    EnterUnderKey(w, comp_key, KnownNameOr(known, comp_key, found))

\* a slide that names no competency while none is active opens a scope
\* named after nothing
EnterCompetencyOrUnnamed(w, found, known) ==
    IF found # None /\ found # ""
    THEN EnterKeyed(w, found, normalize_key(found), known)
    ELSE IF w.current_competency = None
    THEN EnterKeyed(w, "Bez nazvania", normalize_key("Bez nazvania"), known)
    ELSE w

\* the running level and type cleared also when the slide names no competency
EnterCompetencyAlwaysResets(w, found, known) ==
    IF found # None /\ found # ""
    THEN EnterKeyed(w, found, normalize_key(found), known)
    ELSE [w EXCEPT !.current_level = None, !.current_type = None]

\* lines 303-322
EnterCompetency(w, found, known) ==
    IF found # None /\ found # ""
    THEN EnterKeyed(w, found, normalize_key(found), known)
    ELSE w

\* lines 326-353: r is what extract_actions_from_slide returned
StoreActions(w, r, comp_key) ==
    IF HasKey(w.all_actions, comp_key)
    THEN [w EXCEPT !.current_type = r.action_type,
                   !.current_level = r.level,
                   !.all_actions[KeyIndex(w.all_actions, comp_key)] =
                       AddActions(@, r.actions)]
    ELSE [w EXCEPT !.current_type = r.action_type,
                   !.current_level = r.level]

\* lines 325-353
CollectActions(w, slide, known) ==
    IF w.current_competency # None /\ w.current_competency # ""
    THEN StoreActions(w,
                      extract_actions_from_slide(slide, w.current_competency,
                                                 w.current_type, w.current_level,
                                                 known),
                      normalize_key(w.current_competency))
    ELSE w

\* the walk with the running level and type cleared by a slide passed over
WalkStepSkipResets(w, slide, known) ==
    IF IsSkipSlide(slide)
    THEN [w EXCEPT !.current_level = None, !.current_type = None]
    ELSE CollectActions(
             EnterCompetency(w, extract_competency_name_from_slide(slide, known), known),
             slide, known)

WalkStep(w, slide, known) ==
    IF IsSkipSlide(slide) THEN w
    ELSE CollectActions(
             EnterCompetency(w, extract_competency_name_from_slide(slide, known), known),
             slide, known)


----------------------------------------------------------------------------
(* The raw ActionSets actions.json can hold: what the walk builds for a    *)
(* recognised name from the actions found under it.                        *)

RawItems(name) ==
    CASE name = "Ko" -> << >>
      [] name \in {"Kod", "Kot b"} ->
            <<[text |-> "Izuxitq " \o name, level |-> "2", type |-> "70"],
              [text |-> "Primenitq " \o name \o ".", level |-> None, type |-> "20"]>>
      [] OTHER ->
            <<[text |-> "Razobratq " \o name \o ".", level |-> "2", type |-> "10"]>>

RawSet(name) == AddActions(EmptyActionSet(normalize_key(name), name), RawItems(name))

RawInputs ==
    {[i \in 1..Len(names) |-> RawSet(names[i])] : names \in DistinctSeqs(RawNames, MaxSets)}

----------------------------------------------------------------------------
(* State.                                                                  *)

VARIABLES
    pc,                  \* where the run is: walk, extracted, merge, done, resolve
    run,                 \* number of the current run of the pipeline
    model_data,          \* model.json: competencies, clusters, blocks
    KNOWN_COMPETENCIES,  \* extract_pptx.py globals, loaded by main()
    KNOWN_CLUSTERS,
    KNOWN_BLOCKS,
    prs,                 \* the presentation: its slides in order
    slide_idx,           \* the slide the walk is at
    all_actions,         \* extract_all_actions: raw ActionSets found so far
    current_competency,  \* extract_all_actions: active entity, None at first
    current_level,       \* running level
    current_type,        \* running type
    actions_data,        \* merge_data: actions.json as loaded (mutable objects)
    action_idx,          \* merge_data: the raw set the loop is at
    actions_by_comp_id,  \* merge_data: canonical id -> index in actions_data of
                         \*   the raw set whose lists are the id's accumulator
    unmatched_actions,   \* merge_data: records kept for manual review
    matched_count,       \* merge_data
    merged,              \* merge_data: the competencies of the returned dict
    written,             \* files written so far: [path, content] in order
    match_args,          \* find_best_match: the arguments of the last call
    match_result,        \* find_best_match: what the last call returned
    lines,               \* extract_actions_from_slide: the lines still to read
    actions,             \* extract_actions_from_slide: the slide's actions so far
    level,               \* extract_actions_from_slide: running level
    action_type,         \* extract_actions_from_slide: running type
    seen,                \* extract_actions_from_slide: texts already emitted
    default_type,        \* extract_actions_from_slide: the slide's default type
    clean_call,          \* clean_text: the arguments and the value of the last call
    inputs               \* main(): the input files for which Path.exists() holds

walkVars == <<prs, slide_idx, all_actions, current_competency, current_level, current_type>>
mergeVars == <<actions_data, action_idx, actions_by_comp_id, unmatched_actions,
               matched_count, merged>>
matchVars == <<match_args, match_result>>
knownVars == <<KNOWN_COMPETENCIES, KNOWN_CLUSTERS, KNOWN_BLOCKS>>
lineVars == <<lines, actions, level, action_type, seen, default_type>>
textVars == <<clean_call>>
fileVars == <<inputs>>
vars == <<pc, run, model_data, knownVars, walkVars, mergeVars, written, matchVars,
          lineVars, textVars, fileVars>>

Known ==
    [competencies |-> KNOWN_COMPETENCIES,
     clusters |-> KNOWN_CLUSTERS,
     blocks |-> KNOWN_BLOCKS]

\* the globals as the module defines them (lines 18-20)
NoKnown ==
    /\ KNOWN_COMPETENCIES = << >>
    /\ KNOWN_CLUSTERS = {}
    /\ KNOWN_BLOCKS = {}

\* extract_all_actions lines 272-275
WalkStart ==
    [all_actions |-> << >>, current_competency |-> None,
     current_level |-> None, current_type |-> None]

\* the review list kept from the previous call instead of a fresh one
MergeStartKeepingUnmatched ==
    [matched_count |-> 0, unmatched_actions |-> unmatched_actions,
     actions_by_comp_id |-> << >>]

\* merge_data lines 90-92
MergeStart ==
    [matched_count |-> 0, unmatched_actions |-> << >>, actions_by_comp_id |-> << >>]

NoWalk ==
    /\ prs = << >>
    /\ slide_idx = 1
    /\ all_actions = << >>
    /\ current_competency = None
    /\ current_level = None
    /\ current_type = None

NoMerge ==
    /\ actions_data = << >>
    /\ action_idx = 1
    /\ actions_by_comp_id = << >>
    /\ unmatched_actions = << >>
    /\ matched_count = 0
    /\ merged = << >>

NoMatch ==
    /\ match_args = [called |-> FALSE, comp_name |-> "", comp_key |-> ""]
    /\ match_result = <<None, Frac(0, 1)>>

\* no call of extract_actions_from_slide is under way
NoLines ==
    /\ lines = << >>
    /\ actions = << >>
    /\ level = None
    /\ action_type = None
    /\ seen = {}
    /\ default_type = None

\* the files main() looks for before it reads anything
InputFiles == {"menu.pptx", "model.json"}

\* both input files are there
AllInputs == inputs = InputFiles

\* clean_text has not been called
NoText ==
    clean_call = [called |-> FALSE, text |-> "", keep_linebreaks |-> TRUE, value |-> ""]

----------------------------------------------------------------------------
(* The slide walk: extract_pptx.py main() and extract_all_actions.         *)

\* main() has loaded the gazetteer and opened the presentation
Init ==
    /\ pc = "walk"
    /\ run = 1
    /\ model_data \in WalkModels
    /\ KNOWN_COMPETENCIES = LoadKnown(model_data).competencies
    /\ KNOWN_CLUSTERS = LoadKnown(model_data).clusters
    /\ KNOWN_BLOCKS = LoadKnown(model_data).blocks
    /\ prs \in Documents
    /\ slide_idx = 1
    /\ all_actions = WalkStart.all_actions
    /\ current_competency = WalkStart.current_competency
    /\ current_level = WalkStart.current_level
    /\ current_type = WalkStart.current_type
    /\ NoMerge
    /\ written = << >>
    /\ NoMatch
    /\ NoLines
    /\ NoText
    /\ AllInputs

\* one iteration of `for slide_idx, slide in enumerate(prs.slides, 1)`
ProcessSlide ==
    /\ pc = "walk"
    /\ slide_idx <= Len(prs)
    /\ \E w \in {WalkStep([all_actions |-> all_actions,
                              current_competency |-> current_competency,
                              current_level |-> current_level,
                              current_type |-> current_type],
                             prs[slide_idx], Known)} :
           /\ all_actions' = w.all_actions
           /\ current_competency' = w.current_competency
           /\ current_level' = w.current_level
           /\ current_type' = w.current_type
    /\ slide_idx' = slide_idx + 1
    /\ UNCHANGED <<pc, run, model_data, knownVars, prs, mergeVars, written, matchVars, textVars, fileVars, lineVars>>

\* the walk returns and main() writes actions.json (lines 388-395)
SaveActions ==
    /\ pc = "walk"
    /\ slide_idx > Len(prs)
    /\ written' = Append(written, [path |-> "actions.json", content |-> all_actions])
    /\ pc' = "extracted"
    /\ UNCHANGED <<run, model_data, knownVars, walkVars, mergeVars, matchVars, textVars, fileVars, lineVars>>

Next == ProcessSlide \/ SaveActions

Spec == Init /\ [][Next]_vars

----------------------------------------------------------------------------
(* The merge: normalize_data.py main() and merge_data.                     *)

\* the content last written to path
LastWritten(path) ==
    LET at == {k \in DOMAIN written : written[k].path = path}
    IN  written[CHOOSE k \in at : \A j \in at : j <= k].content

CompIds == {model_data.competencies[i].id : i \in DOMAIN model_data.competencies}

\* lines 95-103: <<best_match, score>> for a raw set
Resolve(action_data) ==
    LET comp_name == action_data.competency_name
        norm == normalize_key(comp_name)
        comp_key == apply_alias(IF norm # "" THEN norm ELSE action_data.key)
    IN  find_best_match(comp_name, comp_key, model_data.competencies, DefaultThreshold)

\* list.extend replaced by assignment: the earlier content is dropped
ExtendListReplacing(into, more) == more

\* into.extend(more)
ExtendList(into, more) == into \o more

\* lines 115-120: setdefault(key, []) and extend, for every key of `more`
ExtendBuckets(into, more) ==
    [k \in DOMAIN into \cup DOMAIN more |->
        IF k \in DOMAIN more
        THEN ExtendList(IF k \in DOMAIN into THEN into[k] ELSE << >>, more[k])
        ELSE into[k]]

\* the review record without the raw set it was built from
UnmatchedRecordWithoutPayload(action_data, best_match, score) ==
    [key |-> action_data.key,
     name |-> action_data.competency_name,
     best_match |-> best_match,
     score |-> score,
     actions |-> EmptyActionSet(action_data.key, action_data.competency_name)]

\* lines 127-133
UnmatchedRecord(action_data, best_match, score) ==
    [key |-> action_data.key,
     name |-> action_data.competency_name,
     best_match |-> best_match,
     score |-> score,
     actions |-> action_data]

\* the payload dict of a raw set: its values are the raw set's own objects
Payload(action_data) ==
    [by_level |-> action_data.actions_by_level,
     by_type |-> action_data.actions_by_type,
     all |-> action_data.all_actions]

EmptyPayload ==
    [by_level |-> << >>, by_type |-> [t \in TypeKeys |-> << >>], all |-> << >>]

\* main() lines 167-179: both files are loaded and merge_data starts
LoadActions ==
    /\ pc = "extracted"
    /\ actions_data' = LastWritten("actions.json")
    /\ action_idx' = 1
    /\ actions_by_comp_id' = MergeStart.actions_by_comp_id
    /\ unmatched_actions' = MergeStart.unmatched_actions
    /\ matched_count' = MergeStart.matched_count
    /\ merged' = << >>
    /\ pc' = "merge"
    /\ UNCHANGED <<run, model_data, knownVars, walkVars, written, matchVars, textVars, fileVars, lineVars>>

\* one iteration of `for action_key, action_data in actions_data.items()`
MergeStep ==
    /\ pc = "merge"
    /\ action_idx <= Len(actions_data)
    /\ \E r \in {Resolve(actions_data[action_idx])} :
       LET action_data == actions_data[action_idx]
           best_match == r[1]
           score == r[2]
       IN  IF best_match # None /\ best_match # "" /\ best_match \in CompIds
           THEN /\ IF best_match \in DOMAIN actions_by_comp_id
                   THEN LET existing == actions_by_comp_id[best_match]
                        IN  /\ actions_data' =
                                  [actions_data EXCEPT
                                      ![existing].actions_by_level =
                                          ExtendBuckets(@, action_data.actions_by_level),
                                      ![existing].actions_by_type =
                                          ExtendBuckets(@, action_data.actions_by_type),
                                      ![existing].all_actions =
                                          ExtendList(@, action_data.all_actions)]
                            /\ UNCHANGED actions_by_comp_id
                   ELSE /\ actions_by_comp_id' =
                                actions_by_comp_id @@ (best_match :> action_idx)
                        /\ UNCHANGED actions_data
                /\ matched_count' = matched_count + 1
                /\ UNCHANGED unmatched_actions
           ELSE /\ unmatched_actions' =
                       Append(unmatched_actions,
                              UnmatchedRecord(action_data, best_match, score))
                /\ UNCHANGED <<actions_data, actions_by_comp_id, matched_count>>
    /\ action_idx' = action_idx + 1
    /\ UNCHANGED <<pc, run, model_data, knownVars, walkVars, merged, written, matchVars, textVars, fileVars, lineVars>>

\* only the competencies some raw set was matched to
MergedCompetenciesMatchedOnly ==
    LET Matched(comp) == comp.id \in DOMAIN actions_by_comp_id
        comps == SelectSeq(model_data.competencies, Matched)
    IN  [i \in DOMAIN comps |->
            [id |-> comps[i].id,
             name |-> comps[i].name,
             actions |-> Payload(actions_data[actions_by_comp_id[comps[i].id]])]]

\* lines 137-144: the competencies in model order
MergedCompetencies ==
    [i \in DOMAIN model_data.competencies |->
        LET comp == model_data.competencies[i]
        IN  [id |-> comp.id,
             name |-> comp.name,
             actions |-> IF comp.id \in DOMAIN actions_by_comp_id
                         THEN Payload(actions_data[actions_by_comp_id[comp.id]])
                         ELSE EmptyPayload]]

\* lines 136-153 and main() lines 181-184: the loop is over, the competencies
\* are built, unmatched_actions.json and data.json are written
MergeFinish ==
    /\ pc = "merge"
    /\ action_idx > Len(actions_data)
    /\ merged' = MergedCompetencies
    /\ written' = written \o
                  <<[path |-> "unmatched_actions.json", content |-> unmatched_actions],
                    [path |-> "data.json", content |-> MergedCompetencies]>>
    /\ pc' = "done"
    /\ UNCHANGED <<run, model_data, knownVars, walkVars, actions_data, action_idx,
                   actions_by_comp_id, unmatched_actions, matched_count, matchVars, textVars, fileVars, lineVars>>

InitMerge ==
    /\ pc = "merge"
    /\ run = 1
    /\ model_data \in MergeModels
    /\ NoKnown
    /\ NoWalk
    /\ actions_data \in RawInputs
    /\ action_idx = 1
    /\ actions_by_comp_id = << >>
    /\ unmatched_actions = << >>
    /\ matched_count = 0
    /\ merged = << >>
    /\ written = <<[path |-> "actions.json", content |-> actions_data]>>
    /\ NoMatch
    /\ NoLines
    /\ NoText
    /\ AllInputs

NextMerge == MergeStep \/ MergeFinish

SpecMerge == InitMerge /\ [][NextMerge]_vars

----------------------------------------------------------------------------
(* The whole pipeline, run again on the same inputs.                       *)

\* both scripts are started again: extract_all_actions lines 272-275
Rerun ==
    /\ pc = "done"
    /\ run < MaxRuns
    /\ run' = run + 1
    /\ slide_idx' = 1
    /\ all_actions' = WalkStart.all_actions
    /\ current_competency' = WalkStart.current_competency
    /\ current_level' = WalkStart.current_level
    /\ current_type' = WalkStart.current_type
    /\ pc' = "walk"
    /\ UNCHANGED <<model_data, knownVars, prs, mergeVars, written, matchVars, textVars, fileVars, lineVars>>

NextPipeline ==
    ProcessSlide \/ SaveActions \/ LoadActions \/ MergeStep \/ MergeFinish \/ Rerun

SpecPipeline == Init /\ [][NextPipeline]_vars

----------------------------------------------------------------------------
(* find_best_match on its own.                                             *)

InitResolver ==
    /\ pc = "resolve"
    /\ run = 1
    /\ model_data \in Models
    /\ NoKnown
    /\ NoWalk
    /\ NoMerge
    /\ written = << >>
    /\ NoMatch
    /\ NoLines
    /\ NoText
    /\ AllInputs

\* a call with a raw name and its key, or with no key
CallFindBestMatch ==
    /\ pc = "resolve"
    /\ \E comp_name \in RawNames :
         \E comp_key \in {normalize_key(comp_name), ""} :
            /\ match_args' = [called |-> TRUE, comp_name |-> comp_name,
                               comp_key |-> comp_key]
            /\ match_result' = find_best_match(comp_name, comp_key,
                                               model_data.competencies,
                                               DefaultThreshold)
    /\ UNCHANGED <<pc, run, model_data, knownVars, walkVars, mergeVars, written, lineVars,
                   textVars, fileVars>>

NextResolver == CallFindBestMatch

SpecResolver == InitResolver /\ [][NextResolver]_vars

----------------------------------------------------------------------------
(* The slide walk line by line: extract_all_actions with the loop          *)
(* `for line in lines` of extract_actions_from_slide taken one line at a   *)
(* step.                                                                   *)

\* slides of one or two competencies: markers, bulleted, numbered, short,
\* repeated and continuation lines
LineSlides ==
    {[title |-> 1,
      shapes |-> <<TextShape(0, 0, "Kod b"),
                   TextShape(1, 0, "Urovenq 2\n* Izuxitq osnovy\nna praktike.\nIzuxitq osnovy na praktike.")>>],
     [title |-> 0,
      shapes |-> <<TextShape(1, 0, "Provesti revu koda.\n12) Kod tut\n20% razvitie na raboxem meste\nSostavitq plan rabot")>>],
     [title |-> 1,
      shapes |-> <<TextShape(0, 0, "Kod c"),
                   TextShape(1, 0, "Utoxnitq sroki rabot.\nObuxenie i samorazvitie")>>],
     [title |-> 1,
      shapes |-> <<TextShape(0, 0, "Soderjanie"),
                   TextShape(1, 0, "Urovenq 4\nNapisatq testy k kodu")>>],
     [title |-> 0,
      shapes |-> <<TextShape(1, 0, "Opisanie urovna 3\nNapisatq testy k kodu\n- dla novyh zadax\ni proveritq ih vse do konca dna\n- dla novyh zadax\nUrovenq 4 - 20%\nv konce nedeli\n10%\npo vsem zadaxam")>>]}

LineDocuments == UNION {[1..n -> LineSlides] : n \in 0..MaxSlides}

\* a gazetteer that knows one of the two competencies of the slides
LineModels == {ModelOf(<<"Kod b">>)}

\* the walk's variables as the record the walk operators take
Walk ==
    [all_actions |-> all_actions, current_competency |-> current_competency,
     current_level |-> current_level, current_type |-> current_type]

\* the locals of extract_actions_from_slide as the record ProcessLine takes
Locals ==
    [actions |-> actions, level |-> level, action_type |-> action_type, seen |-> seen]

\* lines 174-181: the lines of the texts in reading order, the text that is
\* the competency name passed over
RECURSIVE PendingLines(_, _)
PendingLines(items, competency_name) ==
    IF items = << >> THEN << >>
    ELSE (IF competency_name # None /\ competency_name # ""
             /\ normalize_key(Head(items).text) = normalize_key(competency_name)
          THEN << >>
          ELSE split(Head(items).text, "\n"))
         \o PendingLines(Tail(items), competency_name)

InitLines ==
    /\ pc = "walk"
    /\ run = 1
    /\ model_data \in LineModels
    /\ KNOWN_COMPETENCIES = LoadKnown(model_data).competencies
    /\ KNOWN_CLUSTERS = LoadKnown(model_data).clusters
    /\ KNOWN_BLOCKS = LoadKnown(model_data).blocks
    /\ prs \in LineDocuments
    /\ slide_idx = 1
    /\ all_actions = WalkStart.all_actions
    /\ current_competency = WalkStart.current_competency
    /\ current_level = WalkStart.current_level
    /\ current_type = WalkStart.current_type
    /\ NoMerge
    /\ written = << >>
    /\ NoMatch
    /\ NoLines
    /\ NoText
    /\ AllInputs

\* lines 279-298: the slide is passed over
SkipSlide ==
    /\ pc = "walk"
    /\ slide_idx <= Len(prs)
    /\ IsSkipSlide(prs[slide_idx])
    /\ slide_idx' = slide_idx + 1
    /\ UNCHANGED <<pc, run, model_data, knownVars, prs, all_actions, current_competency,
                   current_level, current_type, mergeVars, written, matchVars, textVars, fileVars, lineVars>>

\* the slide entered with `seen` holding the texts filed for the competency
\* on earlier slides
EnterSlideKeepingSeen ==
    /\ pc = "walk"
    /\ slide_idx <= Len(prs)
    /\ ~IsSkipSlide(prs[slide_idx])
    /\ \E w \in {EnterCompetency(Walk,
                                 extract_competency_name_from_slide(prs[slide_idx], Known),
                                 Known)} :
         /\ all_actions' = w.all_actions
         /\ current_competency' = w.current_competency
         /\ current_level' = w.current_level
         /\ current_type' = w.current_type
         /\ IF w.current_competency # None /\ w.current_competency # ""
            THEN \E all_text \in {AllTextFrom(prs[slide_idx], 1)} :
                    /\ pc' = "lines"
                    /\ actions' = << >>
                    /\ level' = w.current_level
                    /\ action_type' = w.current_type
                    /\ seen' = IF HasKey(w.all_actions, normalize_key(w.current_competency))
                               THEN {a.text : a \in
                                       Range(w.all_actions[
                                           KeyIndex(w.all_actions,
                                                    normalize_key(w.current_competency))
                                       ].all_actions)}
                               ELSE {}
                    /\ default_type' = DefaultType(JoinedLower(all_text), w.current_type)
                    /\ lines' = PendingLines(SortedByPosition(all_text),
                                             w.current_competency)
                    /\ UNCHANGED slide_idx
            ELSE /\ slide_idx' = slide_idx + 1
                 /\ UNCHANGED <<pc, lineVars>>
    /\ UNCHANGED <<run, model_data, knownVars, prs, mergeVars, written, matchVars, textVars, fileVars>>

\* lines 300-325 and 148-171: the competency of the slide is settled and, if
\* one is active, extract_actions_from_slide is entered
EnterSlide ==
    /\ pc = "walk"
    /\ slide_idx <= Len(prs)
    /\ ~IsSkipSlide(prs[slide_idx])
    /\ \E w \in {EnterCompetency(Walk,
                                 extract_competency_name_from_slide(prs[slide_idx], Known),
                                 Known)} :
         /\ all_actions' = w.all_actions
         /\ current_competency' = w.current_competency
         /\ current_level' = w.current_level
         /\ current_type' = w.current_type
         /\ IF w.current_competency # None /\ w.current_competency # ""
            THEN \E all_text \in {AllTextFrom(prs[slide_idx], 1)} :
                    /\ pc' = "lines"
                    /\ actions' = << >>
                    /\ level' = w.current_level
                    /\ action_type' = w.current_type
                    /\ seen' = {}
                    /\ default_type' = DefaultType(JoinedLower(all_text), w.current_type)
                    /\ lines' = PendingLines(SortedByPosition(all_text),
                                             w.current_competency)
                    /\ UNCHANGED slide_idx
            ELSE /\ slide_idx' = slide_idx + 1
                 /\ UNCHANGED <<pc, lineVars>>
    /\ UNCHANGED <<run, model_data, knownVars, prs, mergeVars, written, matchVars, textVars, fileVars>>

\* lines 181-266: one iteration of `for line in lines`
ReadLine ==
    /\ pc = "lines"
    /\ lines # << >>
    /\ \E st \in {ProcessLine(Locals, Head(lines), default_type, Known)} :
         /\ actions' = st.actions
         /\ level' = st.level
         /\ action_type' = st.action_type
         /\ seen' = st.seen
    /\ lines' = Tail(lines)
    /\ UNCHANGED <<pc, run, model_data, knownVars, walkVars, mergeVars, written,
                   matchVars, textVars, fileVars, default_type>>

\* lines 268 and 326-353: the call returns and the walk files the actions
LeaveSlide ==
    /\ pc = "lines"
    /\ lines = << >>
    /\ \E w \in {StoreActions(Walk, Returned(Locals), normalize_key(current_competency))} :
         /\ all_actions' = w.all_actions
         /\ current_competency' = w.current_competency
         /\ current_level' = w.current_level
         /\ current_type' = w.current_type
    /\ slide_idx' = slide_idx + 1
    /\ pc' = "walk"
    /\ actions' = << >>
    /\ level' = None
    /\ action_type' = None
    /\ seen' = {}
    /\ default_type' = None
    /\ UNCHANGED <<run, model_data, knownVars, prs, mergeVars, written, matchVars, textVars, fileVars, lines>>

NextLines == SkipSlide \/ EnterSlide \/ ReadLine \/ LeaveSlide \/ SaveActions

SpecLines == InitLines /\ [][NextLines]_vars

\* the walk as ProcessSlide takes it, slide by slide
RECURSIVE WalkOver(_, _, _)
WalkOver(slides, n, known) ==
    IF n = 0 THEN WalkStart
    ELSE WalkStep(WalkOver(slides, n - 1, known), slides[n], known)

\* between two slides the line-by-line walk stands where the slide-by-slide
\* walk does
LinesAgreeWithSlides ==
    pc = "walk" => Walk = WalkOver(prs, slide_idx - 1, Known)

----------------------------------------------------------------------------
(* The merge on raw names the alias table remaps.                          *)

\* canonical names: the competency the alias points to, one whose key is
\* part of that competency's key, and an unrelated one
AliasCanonNames == {"Razvitie korporativnoi cifrovoi arhitektury", "Razvitie", "Kod"}

\* raw names: the aliased name, a name that starts with it, an unrelated one
AliasRawNames ==
    {"Formirovanie korporativnoi cifrovoi arhitektury",
     "Formirovanie korporativnoi cifrovoi arhitektury banka",
     "Kod"}

AliasModels == {ModelOf(names) : names \in DistinctSeqs(AliasCanonNames, MaxComps)}

AliasInputs ==
    {[i \in 1..Len(names) |-> RawSet(names[i])] :
        names \in DistinctSeqs(AliasRawNames, MaxSets)}

InitAlias ==
    /\ pc = "merge"
    /\ run = 1
    /\ model_data \in AliasModels
    /\ NoKnown
    /\ NoWalk
    /\ actions_data \in AliasInputs
    /\ action_idx = 1
    /\ actions_by_comp_id = MergeStart.actions_by_comp_id
    /\ unmatched_actions = MergeStart.unmatched_actions
    /\ matched_count = MergeStart.matched_count
    /\ merged = << >>
    /\ written = <<[path |-> "actions.json", content |-> actions_data]>>
    /\ NoMatch
    /\ NoLines
    /\ NoText
    /\ AllInputs

SpecAlias == InitAlias /\ [][NextMerge]_vars

----------------------------------------------------------------------------
(* clean_text on its own.                                                  *)

MaxText == 5        \* characters of a text handed to clean_text

\* the characters clean_text tells apart, and a letter
TextChars == {" ", "\t", "\n", "\r", "\f", "a"}

\* the texts of n characters
RECURSIVE TextsOfLen(_)
TextsOfLen(n) ==
    IF n = 0 THEN {""}
    ELSE {c \o t : c \in TextChars, t \in TextsOfLen(n - 1)}

Texts == {None} \cup UNION {TextsOfLen(n) : n \in 0..MaxText}

InitCleanText ==
    /\ pc = "clean"
    /\ run = 1
    /\ model_data = ModelOf(<< >>)
    /\ NoKnown
    /\ NoWalk
    /\ NoMerge
    /\ written = << >>
    /\ NoMatch
    /\ NoLines
    /\ AllInputs
    /\ \E text \in Texts, keep_linebreaks \in BOOLEAN :
          clean_call = [called |-> FALSE, text |-> text,
                        keep_linebreaks |-> keep_linebreaks, value |-> ""]

\* clean_text(text, keep_linebreaks)
CallCleanText ==
    /\ pc = "clean"
    /\ ~clean_call.called
    /\ clean_call' = [clean_call EXCEPT
                         !.called = TRUE,
                         !.value = clean_text(clean_call.text, clean_call.keep_linebreaks)]
    /\ UNCHANGED <<pc, run, model_data, knownVars, walkVars, mergeVars, written,
                   matchVars, lineVars, fileVars>>

\* clean_text called on the value it returned, in the same mode
CleanAgain ==
    /\ pc = "clean"
    /\ clean_call.called
    /\ clean_call' = [clean_call EXCEPT
                         !.text = clean_call.value,
                         !.value = clean_text(clean_call.value, clean_call.keep_linebreaks)]
    /\ UNCHANGED <<pc, run, model_data, knownVars, walkVars, mergeVars, written,
                   matchVars, lineVars, fileVars>>

NextCleanText == CallCleanText \/ CleanAgain

SpecCleanText == InitCleanText /\ [][NextCleanText]_vars

----------------------------------------------------------------------------
(* The two scripts from the first line of main(): input files that are     *)
(* absent, and a shape whose position cannot be read.                      *)

\* shape.top of a shape that has no position of its own: python-pptx gives
\* None, which is no number
NoPosition == -1

\* slides of a competency; on the last a text box has no position of its
\* own, for which python-pptx gives top = None
RunSlides ==
    {[title |-> 1,
      shapes |-> <<TextShape(0, 0, "Kod b"),
                   TextShape(1, 0, "Urovenq 2\n* Izuxitq osnovy\nna praktike.")>>],
     [title |-> 0,
      shapes |-> <<TextShape(1, 0, "20% razvitie na raboxem meste\nProvesti revu koda.\nProvesti revu koda.")>>],
     [title |-> 1,
      shapes |-> <<TextShape(0, 0, "Kod c"),
                   TextShape(NoPosition, 0, "Utoxnitq sroki rabot.")>>]}

RunDocuments == UNION {[1..n -> RunSlides] : n \in 0..MaxSlides}

RunModels == {ModelOf(<<"Kod b", "Kod c">>)}

\* line 174: sorted() compares the keys (top, left) and raises TypeError
\* when one of two keys holds None where the other holds a number
SortRaises(all_text) ==
    \E i, j \in DOMAIN all_text :
        \/ (all_text[i].top = NoPosition) # (all_text[j].top = NoPosition)
        \/ /\ all_text[i].top = all_text[j].top
           /\ (all_text[i].left = NoPosition) # (all_text[j].left = NoPosition)

\* lines 297-331: the slide is not passed over, a competency is active once
\* its name is settled, and the call of extract_actions_from_slide raises
SlideRaises(w, slide, known) ==
    /\ ~IsSkipSlide(slide)
    /\ \E e \in {EnterCompetency(w, extract_competency_name_from_slide(slide, known),
                                 known)} :
          e.current_competency # None /\ e.current_competency # ""
    /\ SortRaises(AllTextFrom(slide, 1))

InitRun ==
    /\ pc = "start"
    /\ run = 1
    /\ inputs \in SUBSET InputFiles
    /\ model_data \in RunModels
    /\ NoKnown
    /\ prs \in IF "menu.pptx" \in inputs THEN RunDocuments ELSE {<< >>}
    /\ slide_idx = 1
    /\ all_actions = WalkStart.all_actions
    /\ current_competency = WalkStart.current_competency
    /\ current_level = WalkStart.current_level
    /\ current_type = WalkStart.current_type
    /\ NoMerge
    /\ written = << >>
    /\ NoMatch
    /\ NoLines
    /\ NoText

\* extract_pptx.py main() lines 358-386: without the presentation the script
\* exits; model.json is loaded only if it is there
StartExtract ==
    /\ pc = "start"
    /\ IF "menu.pptx" \notin inputs
       THEN /\ pc' = "extract_failed"
            /\ UNCHANGED knownVars
       ELSE /\ pc' = "walk"
            /\ IF "model.json" \notin inputs
               THEN UNCHANGED knownVars
               ELSE /\ KNOWN_COMPETENCIES' = LoadKnown(model_data).competencies
                    /\ KNOWN_CLUSTERS' = LoadKnown(model_data).clusters
                    /\ KNOWN_BLOCKS' = LoadKnown(model_data).blocks
    /\ UNCHANGED <<run, model_data, walkVars, mergeVars, written, matchVars, textVars, fileVars,
                   lineVars>>

\* an iteration of the walk in which nothing raises
WalkSlide ==
    /\ pc = "walk"
    /\ slide_idx <= Len(prs)
    /\ ~SlideRaises(Walk, prs[slide_idx], Known)
    /\ ProcessSlide

\* an iteration of the walk in which line 174 raises: no try statement
\* encloses it in extract_actions_from_slide, extract_all_actions or
\* main(), so the script ends before line 394
RaiseInSlide ==
    /\ pc = "walk"
    /\ slide_idx <= Len(prs)
    /\ SlideRaises(Walk, prs[slide_idx], Known)
    /\ \E e \in {EnterCompetency(Walk,
                                 extract_competency_name_from_slide(prs[slide_idx], Known),
                                 Known)} :
         /\ all_actions' = e.all_actions
         /\ current_competency' = e.current_competency
         /\ current_level' = e.current_level
         /\ current_type' = e.current_type
    /\ pc' = "extract_failed"
    /\ UNCHANGED <<run, model_data, knownVars, prs, slide_idx, mergeVars, written,
                   matchVars, textVars, fileVars, lineVars>>

\* normalize_data.py main() lines 156-179: without model.json or
\* actions.json the script exits, else both are loaded and merge_data starts
StartNormalize ==
    /\ pc \in {"extracted", "extract_failed"}
    /\ IF \/ "model.json" \notin inputs
          \/ \A k \in DOMAIN written : written[k].path # "actions.json"
       THEN /\ pc' = "normalize_failed"
            /\ UNCHANGED <<run, model_data, knownVars, walkVars, mergeVars, written,
                           matchVars, textVars, fileVars, lineVars>>
       ELSE LoadActions

NextRun ==
    \/ StartExtract
    \/ WalkSlide
    \/ RaiseInSlide
    \/ SaveActions
    \/ StartNormalize
    \/ MergeStep
    \/ MergeFinish

SpecRun == InitRun /\ [][NextRun]_vars

----------------------------------------------------------------------------
(* The walk over slides whose title is a cluster, a block or a type        *)
(* heading.                                                                *)

\* model.json in which a competency bears the name of its cluster
TitleModels == {ModelOf(<<"Kod b">>), ModelOf(<<"Kod b", "Klaster A">>)}

TitleSlides ==
    {[title |-> 1,
      shapes |-> <<TextShape(0, 0, "Kod b"),
                   TextShape(1, 0, "Urovenq 2\nIzuxitq osnovy raboty.")>>],
     [title |-> 1,
      shapes |-> <<TextShape(0, 0, "Klaster A"),
                   TextShape(1, 0, "Provesti revu koda.")>>],
     [title |-> 1,
      shapes |-> <<TextShape(0, 0, "Blok 1"),
                   TextShape(1, 0, "Sostavitq plan rabot.")>>],
     [title |-> 1,
      shapes |-> <<TextShape(0, 0, "20% Razvitie na raboxem meste"),
                   TextShape(1, 0, "Utoxnitq sroki rabot.")>>],
     [title |-> 1,
      shapes |-> <<TextShape(0, 0, "Soderjanie: obuxenie na praktike"),
                   TextShape(1, 0, "Napisatq testy k kodu.")>>]}

TitleDocuments == UNION {[1..n -> TitleSlides] : n \in 0..MaxSlides}

InitTitles ==
    /\ pc = "walk"
    /\ run = 1
    /\ model_data \in TitleModels
    /\ KNOWN_COMPETENCIES = LoadKnown(model_data).competencies
    /\ KNOWN_CLUSTERS = LoadKnown(model_data).clusters
    /\ KNOWN_BLOCKS = LoadKnown(model_data).blocks
    /\ prs \in TitleDocuments
    /\ slide_idx = 1
    /\ all_actions = WalkStart.all_actions
    /\ current_competency = WalkStart.current_competency
    /\ current_level = WalkStart.current_level
    /\ current_type = WalkStart.current_type
    /\ NoMerge
    /\ written = << >>
    /\ NoMatch
    /\ NoLines
    /\ NoText
    /\ AllInputs

SpecTitles == InitTitles /\ [][Next]_vars

----------------------------------------------------------------------------
(* The walk over slides that name competencies only inside their text:     *)
(* the whole-slide search of extract_competency_name_from_slide.           *)

\* model.json with a name that is part of two longer names of equal length
FallbackModels ==
    {ModelOf(names) : names \in {<<"Kod", "Kod b", "Kod c">>,
                                 <<"Kod c", "Kod b", "Kod">>,
                                 <<"Kod b", "Kod">>,
                                 <<"Kod", "Kod c">>}}

\* slides without a title whose text is in a table or in a text box too
\* short to be a name
FallbackSlides ==
    {[title |-> 0,
      shapes |-> <<TableShape(1, 0, <<"Razobratq Kod b i Kod c.">>)>>],
     [title |-> 0,
      shapes |-> <<TableShape(1, 0, <<"Izuxitq Kod segodna.">>)>>],
     [title |-> 0,
      shapes |-> <<TextShape(0, 0, "Kod"),
                   TableShape(1, 0, <<"Primenitq Kod c podrobno.">>)>>],
     [title |-> 0,
      shapes |-> <<TableShape(1, 0, <<"Sostavitq plan rabot.">>)>>]}

FallbackDocuments == UNION {[1..n -> FallbackSlides] : n \in 0..MaxSlides}

InitFallback ==
    /\ pc = "walk"
    /\ run = 1
    /\ model_data \in FallbackModels
    /\ KNOWN_COMPETENCIES = LoadKnown(model_data).competencies
    /\ KNOWN_CLUSTERS = LoadKnown(model_data).clusters
    /\ KNOWN_BLOCKS = LoadKnown(model_data).blocks
    /\ prs \in FallbackDocuments
    /\ slide_idx = 1
    /\ all_actions = WalkStart.all_actions
    /\ current_competency = WalkStart.current_competency
    /\ current_level = WalkStart.current_level
    /\ current_type = WalkStart.current_type
    /\ NoMerge
    /\ written = << >>
    /\ NoMatch
    /\ NoLines
    /\ NoText
    /\ AllInputs

SpecFallback == InitFallback /\ [][Next]_vars

----------------------------------------------------------------------------
(* The walk over slides whose shapes are stored out of reading order.      *)

\* on the third slide the share is drawn as two boxes side by side, the
\* number and the sign
ShapeSlides ==
    {[title |-> 1,
      shapes |-> <<TextShape(0, 0, "Kod b"),
                   TextShape(2, 0, "Izuxitq osnovy raboty."),
                   TextShape(1, 0, "Urovenq 2")>>],
     [title |-> 0,
      shapes |-> <<TextShape(2, 0, "na praktike"),
                   TextShape(1, 0, "10% obuxenie i samorazvitie\nSostavitq plan rabot")>>],
     [title |-> 1,
      shapes |-> <<TextShape(0, 0, "Kod c"),
                   TextShape(1, 0, "20"),
                   TextShape(1, 1, "% vremeni\nProvesti revu koda.")>>]}

ShapeDocuments == UNION {[1..n -> ShapeSlides] : n \in 0..MaxSlides}

InitShapes ==
    /\ pc = "walk"
    /\ run = 1
    /\ model_data \in WalkModels
    /\ KNOWN_COMPETENCIES = LoadKnown(model_data).competencies
    /\ KNOWN_CLUSTERS = LoadKnown(model_data).clusters
    /\ KNOWN_BLOCKS = LoadKnown(model_data).blocks
    /\ prs \in ShapeDocuments
    /\ slide_idx = 1
    /\ all_actions = WalkStart.all_actions
    /\ current_competency = WalkStart.current_competency
    /\ current_level = WalkStart.current_level
    /\ current_type = WalkStart.current_type
    /\ NoMerge
    /\ written = << >>
    /\ NoMatch
    /\ NoLines
    /\ NoText
    /\ AllInputs

SpecShapes == InitShapes /\ [][Next]_vars

----------------------------------------------------------------------------
(* Properties of find_best_match.                                          *)

Called == match_args.called

\* the key find_best_match works with (line 48)
EffectiveKey ==
    IF match_args.comp_key # "" THEN match_args.comp_key
    ELSE normalize_key(match_args.comp_name)

Canon == model_data.competencies

\* the score line 63-66 computes for entry i and a raw name and key
EntryScore(comp_name, comp_key, i) ==
    ScoreMax(similarity(comp_name, Canon[i].name), similarity(comp_key, Canon[i].id))

\* entry i is an exact or a containment match of the key
ExactOrContainment(comp_key, i) ==
    \/ comp_key = Canon[i].id
    \/ /\ comp_key # ""
       /\ Contains(Canon[i].id, comp_key) \/ Contains(comp_key, Canon[i].id)

\* both similarities of every entry are strictly below the threshold
AllBelowThreshold(comp_name, comp_key) ==
    \A i \in DOMAIN Canon :
        /\ ScoreGT(DefaultThreshold, similarity(comp_name, Canon[i].name))
        /\ ScoreGT(DefaultThreshold, similarity(comp_key, Canon[i].id))

\* the first entry that attains the highest score
FirstBest(comp_name, comp_key) ==
    CHOOSE i \in DOMAIN Canon :
        /\ \A j \in DOMAIN Canon :
              ScoreGE(EntryScore(comp_name, comp_key, i), EntryScore(comp_name, comp_key, j))
        /\ \A j \in 1..(i - 1) :
              ScoreGT(EntryScore(comp_name, comp_key, i), EntryScore(comp_name, comp_key, j))

\* C4: a raw key identical to the id of some canonical entry is resolved to
\* that entry with score 1.0, wherever the entry stands in the canonical list
\* and whatever entries precede it.
C4ExactKeyWins ==
    Called =>
        \A i \in DOMAIN Canon :
            EffectiveKey = Canon[i].id => match_result = <<Canon[i].id, Frac(1, 1)>>

\* C5 as stated: when the name similarity and the key similarity of every
\* canonical entry are strictly below the threshold, no id is returned, also
\* when the raw key is a substring of a canonical key or contains one.
C5BelowThresholdNeverMatches ==
    (Called /\ AllBelowThreshold(match_args.comp_name, EffectiveKey)) =>
        match_result[1] = None

\* C5: when the name similarity and the key similarity of every canonical entry
\* are strictly below the threshold and no canonical key contains the raw key
\* or is contained in it, find_best_match returns no match, with score 0.
C5BelowThresholdWithoutContainment ==
    (/\ Called
     /\ AllBelowThreshold(match_args.comp_name, EffectiveKey)
     /\ \A i \in DOMAIN Canon : ~ExactOrContainment(EffectiveKey, i)) =>
        match_result = <<None, Frac(0, 1)>>

\* a call against a non-empty list where some entry scores above zero, all
\* entries score below the threshold and none contains the key
C5Witness ==
    /\ Called
    /\ Canon # << >>
    /\ AllBelowThreshold(match_args.comp_name, EffectiveKey)
    /\ \A i \in DOMAIN Canon : ~ExactOrContainment(EffectiveKey, i)
    /\ \E i \in DOMAIN Canon :
          ScoreGT(EntryScore(match_args.comp_name, EffectiveKey, i), Frac(0, 1))
    /\ match_result[1] = None

\* C7: with no exact and no containment match, when the highest score is at or
\* above the threshold the result is the first entry of the canonical list
\* that attains it, with that score; a tie or a score equal to the threshold
\* yields a result like any other.
C7FirstDeclaredWins ==
    (/\ Called
     /\ Canon # << >>
     /\ \A i \in DOMAIN Canon : ~ExactOrContainment(EffectiveKey, i)) =>
        LET best == FirstBest(match_args.comp_name, EffectiveKey)
            score == EntryScore(match_args.comp_name, EffectiveKey, best)
        IN  ScoreGE(score, DefaultThreshold) =>
                match_result = <<Canon[best].id, score>>

\* two entries tie at a score equal to the threshold and the first is returned
C7Witness ==
    /\ Called
    /\ \A i \in DOMAIN Canon : ~ExactOrContainment(EffectiveKey, i)
    /\ \E i, j \in DOMAIN Canon :
          /\ i < j
          /\ i = FirstBest(match_args.comp_name, EffectiveKey)
          /\ EntryScore(match_args.comp_name, EffectiveKey, i) = DefaultThreshold
          /\ EntryScore(match_args.comp_name, EffectiveKey, j) = DefaultThreshold
          /\ match_result = <<Canon[i].id, DefaultThreshold>>

----------------------------------------------------------------------------
(* Properties of merge_data.                                               *)

\* actions.json as the merge loaded it, before any accumulation
OriginalSets == LastWritten("actions.json")

\* what each raw set of actions.json resolves to
ResolvedIds == [k \in DOMAIN OriginalSets |-> Resolve(OriginalSets[k])[1]]

RECURSIVE SumOver(_, _)
SumOver(F(_), S) ==
    IF S = {} THEN 0
    ELSE LET x == CHOOSE y \in S : TRUE
         IN  F(x) + SumOver(F, S \ {x})

\* part occurs in whole as a run of consecutive elements
IsInfix(part, whole) ==
    \E at \in 0..(Len(whole) - Len(part)) :
        \A i \in DOMAIN part : whole[at + i] = part[i]

\* C1: the merged competencies are the canonical competencies, one per id and
\* in canonical order; a competency no raw set resolves to has empty buckets.
C1CanonicalCoverage ==
    pc = "done" =>
        /\ Len(merged) = Len(Canon)
        /\ \A id \in CompIds :
              Cardinality({i \in DOMAIN merged : merged[i].id = id}) = 1
        /\ \A resolved \in {ResolvedIds} :
              \A i \in DOMAIN merged :
                 /\ merged[i].id = Canon[i].id
                 /\ merged[i].name = Canon[i].name
                 /\ (\A k \in DOMAIN resolved : resolved[k] # Canon[i].id)
                     => merged[i].actions = EmptyPayload

\* a finished merge with a competency that has actions, one that has none
\* and a raw set left unmatched
C1Witness ==
    /\ pc = "done"
    /\ Len(merged) >= 2
    /\ \E i \in DOMAIN merged : merged[i].actions.all # << >>
    /\ \E i \in DOMAIN merged : merged[i].actions = EmptyPayload
    /\ unmatched_actions # << >>

\* C2: after the merge the `all` lists of the merged competencies hold as many
\* items in total as the all_actions lists of the raw sets that resolved to a
\* canonical id.
C2ItemCountConserved ==
    pc = "done" =>
        \A resolved \in {ResolvedIds} :
            LET MergedAll(i) == Len(merged[i].actions.all)
                RawAll(k) == IF resolved[k] \in CompIds
                             THEN Len(OriginalSets[k].all_actions) ELSE 0
            IN  SumOver(MergedAll, DOMAIN merged) = SumOver(RawAll, DOMAIN OriginalSets)

\* two non-empty raw sets were resolved to one canonical id
C2Witness ==
    /\ pc = "done"
    /\ \E resolved \in {ResolvedIds} :
          \E j, k \in DOMAIN resolved :
             /\ j # k
             /\ resolved[j] \in CompIds
             /\ resolved[j] = resolved[k]
             /\ OriginalSets[j].all_actions # << >>
             /\ OriginalSets[k].all_actions # << >>

\* raw set k is kept in the review list with its payload
InReviewList(k) ==
    \E u \in DOMAIN unmatched_actions :
        /\ unmatched_actions[u].key = OriginalSets[k].key
        /\ unmatched_actions[u].actions = OriginalSets[k]

\* the canonical ids whose accumulator holds the items of raw set k
AccumulatorsOf(k) ==
    {id \in DOMAIN actions_by_comp_id :
        LET acc == actions_data[actions_by_comp_id[id]]
            set == OriginalSets[k]
        IN  /\ IsInfix(set.all_actions, acc.all_actions)
            /\ \A l \in DOMAIN set.actions_by_level :
                  /\ l \in DOMAIN acc.actions_by_level
                  /\ IsInfix(set.actions_by_level[l], acc.actions_by_level[l])
            /\ \A t \in DOMAIN set.actions_by_type :
                  IsInfix(set.actions_by_type[t], acc.actions_by_type[t])}

\* C3: every raw set the merge loop has processed is either in the accumulator
\* of exactly one canonical competency or in the review list with its payload,
\* never in both and never in neither; the two counts add up to the number of
\* sets processed.
C3NoSetLost ==
    pc \in {"merge", "done"} =>
        /\ matched_count + Len(unmatched_actions) = action_idx - 1
        /\ Len(unmatched_actions) =
              Cardinality({k \in 1..(action_idx - 1) : InReviewList(k)})
        /\ \A k \in 1..(action_idx - 1) :
              IF OriginalSets[k].all_actions = << >>
              THEN InReviewList(k) \/ AccumulatorsOf(k) # {}
              ELSE \/ InReviewList(k) /\ AccumulatorsOf(k) = {}
                   \/ ~InReviewList(k) /\ Cardinality(AccumulatorsOf(k)) = 1

\* a finished merge that matched a non-empty set and left another unmatched
C3Witness ==
    /\ pc = "done"
    /\ \E k \in DOMAIN OriginalSets :
          /\ OriginalSets[k].all_actions # << >>
          /\ InReviewList(k)
    /\ \E k \in DOMAIN OriginalSets :
          /\ OriginalSets[k].all_actions # << >>
          /\ ~InReviewList(k)
          /\ AccumulatorsOf(k) # {}

\* C6: the review record of an unresolved raw set carries the raw key, the raw
\* name, the original payload and the id and score of the best-scoring
\* canonical candidate, although that score is below the threshold.
C6ReviewRecordNamesBestCandidate ==
    \A u \in DOMAIN unmatched_actions :
        LET rec == unmatched_actions[u]
            comp_key == apply_alias(IF normalize_key(rec.name) # ""
                                    THEN normalize_key(rec.name) ELSE rec.key)
        IN  /\ rec.key = rec.actions.key
            /\ rec.name = rec.actions.competency_name
            /\ \E k \in DOMAIN OriginalSets : rec.actions = OriginalSets[k]
            /\ Canon # << >> =>
                  LET best == FirstBest(rec.name, comp_key)
                  IN  /\ rec.best_match = Canon[best].id
                      /\ rec.score = EntryScore(rec.name, comp_key, best)

----------------------------------------------------------------------------
(* Properties of the pipeline and of the slide walk.                       *)

\* a run writes actions.json, unmatched_actions.json and data.json
FilesPerRun == 3

\* C8: a second run on the same presentation and the same model writes the
\* same raw action sets, the same review list and the same merged output as
\* the first.
C8RunsAgree ==
    \A k \in DOMAIN written :
        k > FilesPerRun =>
            /\ written[k].path = written[k - FilesPerRun].path
            /\ written[k].content = written[k - FilesPerRun].content

\* the second run is complete, and it matched a set and left one unmatched
C8Witness ==
    /\ pc = "done"
    /\ run = MaxRuns
    /\ Len(written) = FilesPerRun * MaxRuns
    /\ unmatched_actions # << >>
    /\ \E i \in DOMAIN merged : merged[i].actions.all # << >>

\* how often x occurs in the list q
Count(q, x) == Cardinality({i \in DOMAIN q : q[i] = x})

\* C9: in every raw ActionSet each action of all_actions is in exactly one
\* level bucket, and in the bucket of its type when the type is one of
\* 70/20/10 and in no type bucket otherwise: the level buckets together hold
\* the actions of all_actions, each as often as all_actions does, and a type
\* bucket holds the actions of that type.
C9OneLevelBucketAtMostOneTypeBucket ==
    \A s \in DOMAIN all_actions :
        LET set == all_actions[s]
            LevelLen(l) == Len(set.actions_by_level[l])
            TypeLen(t) == Len(set.actions_by_type[t])
            items == Range(set.all_actions)
                     \cup UNION {Range(set.actions_by_level[l]) :
                                    l \in DOMAIN set.actions_by_level}
                     \cup UNION {Range(set.actions_by_type[t]) :
                                    t \in DOMAIN set.actions_by_type}
        IN  /\ SumOver(LevelLen, DOMAIN set.actions_by_level) = Len(set.all_actions)
            /\ SumOver(TypeLen, DOMAIN set.actions_by_type) <= Len(set.all_actions)
            /\ \A x \in items :
                  LET InLevel(l) == Count(set.actions_by_level[l], x)
                      InType(t) == Count(set.actions_by_type[t], x)
                  IN  /\ SumOver(InLevel, DOMAIN set.actions_by_level)
                            = Count(set.all_actions, x)
                      /\ \A t \in DOMAIN set.actions_by_type :
                            InType(t) = IF x.type = t THEN Count(set.all_actions, x)
                                        ELSE 0

\* a raw set with actions under two levels, one of them "all", and with
\* actions of two types
C9Witness ==
    \E s \in DOMAIN all_actions :
        LET set == all_actions[s]
        IN  /\ Len(set.all_actions) >= 3
            /\ "all" \in DOMAIN set.actions_by_level
            /\ Cardinality(DOMAIN set.actions_by_level) >= 2
            /\ Cardinality({t \in TypeKeys : set.actions_by_type[t] # << >>}) >= 2

LevelKeys == {"1", "2", "3", "4", "5", "all"}

\* C10: every level bucket of every raw ActionSet has a key among "1".."5" and
\* "all", whatever digit follows the level word of a level-marker line.
C10LevelKeysInRange ==
    \A s \in DOMAIN all_actions :
        DOMAIN all_actions[s].actions_by_level \subseteq LevelKeys

----------------------------------------------------------------------------
(* Properties of the line loop of extract_actions_from_slide.              *)

\* C11: within one slide and competency, no two actions emitted have the
\* same text.
C11NoRepeatedTextInScope ==
    \A i, j \in DOMAIN actions : i # j => actions[i].text # actions[j].text

\* the last slide up to slide j that is not passed over and names a competency
RECURSIVE LastNamingSlide(_)
LastNamingSlide(j) ==
    IF j <= 1 THEN 1
    ELSE IF /\ ~IsSkipSlide(prs[j])
            /\ extract_competency_name_from_slide(prs[j], Known) \notin {None, ""}
    THEN j
    ELSE LastNamingSlide(j - 1)

\* the slide on which the active competency became active
ScopeStart == LastNamingSlide(slide_idx)

\* the lines extract_actions_from_slide reads on slide j for the active
\* competency, none on a slide that is passed over
SlideLines(j) ==
    IF IsSkipSlide(prs[j]) THEN << >>
    ELSE PendingLines(SortedByPosition(AllTextFrom(prs[j], 1)), current_competency)

RECURSIVE SlideLinesFrom(_, _)
SlideLinesFrom(j, last) ==
    IF j > last THEN << >> ELSE SlideLines(j) \o SlideLinesFrom(j + 1, last)

\* the lines of the slide being read that have been read
ReadOnSlide ==
    CHOOSE read \in {SubSeq(all, 1, Len(all) - Len(lines)) :
                        all \in {SlideLines(slide_idx)}} : TRUE

\* the lines read since the competency became active, while a slide is read
LinesRead == SlideLinesFrom(ScopeStart, slide_idx - 1) \o ReadOnSlide

\* line 192 matches the line
IsLevelMarker(raw_line) ==
    \E s \in {lower(clean_text(raw_line, FALSE))} : LevelMatchStarts(s) # {}

\* level_match.group(2) for the line
MarkerDigit(raw_line) ==
    CHOOSE d \in {LevelMatchDigit(s) : s \in {lower(clean_text(raw_line, FALSE))}} : TRUE

\* the digit of the last level marker among the first i lines, None if there
\* is none
RECURSIVE LastLevel(_, _)
LastLevel(read, i) ==
    IF i = 0 THEN None
    ELSE IF IsLevelMarker(read[i]) THEN MarkerDigit(read[i])
    ELSE LastLevel(read, i - 1)

\* the action objects of the actions whose level key is key, in order
RECURSIVE ObjectsAtLevel(_, _)
ObjectsAtLevel(acts, key) ==
    IF acts = << >> THEN << >>
    ELSE (IF LevelKey(Head(acts)) = key
          THEN <<[text |-> Head(acts).text, type |-> Head(acts).type]>>
          ELSE << >>)
         \o ObjectsAtLevel(Tail(acts), key)

BucketOf(set, key) ==
    IF key \in DOMAIN set.actions_by_level THEN set.actions_by_level[key] ELSE << >>

\* the ActionSet of the active competency
CurrentSet(sets) == sets[KeyIndex(sets, normalize_key(current_competency))]

\* C12: a line matching the level marker with digit N sets the running level
\* to N, emits no action and leaves the running type as it is; a line that is
\* no level marker leaves the running level as it is, and an action it emits
\* carries the digit of the last level marker read since the competency
\* became active (none if there was no marker); when the slide is left every
\* action is appended to the level bucket of its level, "all" if it has none.
C12LevelMarkerSetsLevel ==
    [][/\ (pc = "lines" /\ lines # << >>) =>
             IF IsLevelMarker(Head(lines))
             THEN /\ level' = MarkerDigit(Head(lines))
                  /\ actions' = actions
                  /\ action_type' = action_type
             ELSE /\ level' = level
                  /\ \A k \in DOMAIN actions' \ DOMAIN actions :
                        \A read \in {LinesRead} :
                           actions'[k].level = LastLevel(read, Len(read))
       /\ (pc = "lines" /\ lines = << >>) =>
             /\ current_level' = level
             /\ \A key \in DOMAIN CurrentSet(all_actions').actions_by_level
                           \cup {LevelKey(actions[k]) : k \in DOMAIN actions} :
                   BucketOf(CurrentSet(all_actions'), key)
                       = BucketOf(CurrentSet(all_actions), key)
                         \o ObjectsAtLevel(actions, key)
      ]_vars

\* on a later slide of a competency whose level was 2, a marker has set the
\* level to 3 and the action after it carries 3
C12Witness ==
    /\ pc = "lines"
    /\ current_level = "2"
    /\ level = "3"
    /\ actions # << >>
    /\ actions[Len(actions)].level = "3"

\* the type whose indicator the lowered text holds, in the order lines 198-206
\* test them; None if it holds none
IndicatedType(s) ==
    IF HasPercentOrWord(s, "70") \/ Contains(s, Phrase70) THEN "70"
    ELSE IF HasPercentOrWord(s, "20") \/ Contains(s, Phrase20) THEN "20"
    ELSE IF HasPercentOrWord(s, "10") \/ Contains(s, Phrase10) THEN "10"
    ELSE None

\* the line reaches lines 198-206 and one of the three tests matches
IsTypeMarker(raw_line) ==
    \E s \in {lower(clean_text(raw_line, FALSE))} :
        LevelMatchStarts(s) = {} /\ IndicatedType(s) # None

\* the type the marker line sets
MarkerType(raw_line) ==
    CHOOSE t \in {IndicatedType(s) : s \in {lower(clean_text(raw_line, FALSE))}} : TRUE

\* the type of the last type marker among the first i lines, None if there is
\* none
RECURSIVE LastType(_, _)
LastType(read, i) ==
    IF i = 0 THEN None
    ELSE IF IsTypeMarker(read[i]) THEN MarkerType(read[i])
    ELSE LastType(read, i - 1)

\* C13: a line that holds a type indicator and no level marker sets the
\* running type to the indicated value, emits no action and leaves the running
\* level as it is; a line that is no type marker leaves a running type that
\* is set as it is, and once a type marker has been read since the competency
\* became active an action emitted has the type of the last type marker read;
\* the running type is handed back to the walk when the slide is left.
C13TypeMarkerSetsType ==
    [][/\ (pc = "lines" /\ lines # << >>) =>
             IF IsTypeMarker(Head(lines))
             THEN /\ action_type' = MarkerType(Head(lines))
                  /\ action_type' \in TypeKeys
                  /\ actions' = actions
                  /\ level' = level
             ELSE /\ action_type # None => action_type' = action_type
                  /\ \A k \in DOMAIN actions' \ DOMAIN actions :
                        \A read \in {LinesRead} :
                           \A last \in {LastType(read, Len(read))} :
                              last # None => actions'[k].type = last
       /\ (pc = "lines" /\ lines = << >>) => current_type' = action_type
      ]_vars

\* a slide whose first action was emitted with type 70 has read the marker of
\* type 20, at level 2, and the action after it has type 20
C13Witness ==
    /\ pc = "lines"
    /\ level = "2"
    /\ action_type = "20"
    /\ Len(actions) >= 2
    /\ actions[1].type = "70"
    /\ actions[Len(actions)].type = "20"

\* lines 212-214: the cleaned line with its decoration off
StripDecoration(line) == StripNumberDash(StripNumbering(StripBullets(line)))

\* line 184 and lines 212-214
Stripped(raw_line) ==
    CHOOSE x \in {StripDecoration(line) : line \in {clean_text(raw_line, FALSE)}} : TRUE

\* lines 217-245 let the stripped line through
StrippedPasses(line_clean) ==
    /\ Len(line_clean) >= 10
    /\ \A low \in {lower(line_clean)} : ~IsNonAction(low)
    /\ \A line_key \in {normalize_key(line_clean)} :
          /\ ~InKnownCompetencies(Known, line_key)
          /\ line_key \notin KNOWN_CLUSTERS \cup KNOWN_BLOCKS
          /\ line_key \notin EXCLUDED_ACTIONS

\* the line reaches line 247: it is no marker and none of the tests of lines
\* 188-245 drops it
PassesFilters(raw_line) ==
    /\ ~IsLevelMarker(raw_line)
    /\ ~IsTypeMarker(raw_line)
    /\ \A line \in {clean_text(raw_line, FALSE)} :
          /\ Len(line) >= 10
          /\ \A line_clean \in {StripDecoration(line)} : StrippedPasses(line_clean)

\* the texts of the actions emitted for a competency so far: those the walk
\* has filed in its ActionSet, then those of the slide being read
EmittedTexts(set, acts) ==
    [i \in DOMAIN set.all_actions |-> set.all_actions[i].text]
    \o [i \in DOMAIN acts |-> acts[i].text]

\* the line is a continuation of the text prev_text
ContinuationOf(prev_text, raw_line) ==
    /\ Last(prev_text) \notin {".", "!", "?"}
    /\ ~IsBulletLine(strip(raw_line))
    /\ PassesFilters(raw_line)
    /\ \A line_clean \in {Stripped(raw_line)} : CountWords(line_clean) <= 4

\* C14: a line that is not bullet-prefixed, passes the filters and has at most
\* 4 words, read when the action last emitted for the active competency does
\* not end in '.', '!' or '?', is appended to that action's text after one
\* space and no action is created; any other line leaves the texts of the
\* actions emitted so far as they are.
C14ContinuationMergesIntoPreviousAction ==
    [][(pc = "lines" /\ lines # << >>) =>
          \A k \in {KeyIndex(all_actions, normalize_key(current_competency))} :
             \A emitted \in {EmittedTexts(all_actions[k], actions)} :
                \A after \in {EmittedTexts(all_actions'[k], actions')} :
                   IF emitted # << >>
                      /\ ContinuationOf(emitted[Len(emitted)], Head(lines))
                   THEN /\ Len(after) = Len(emitted)
                        /\ after[Len(emitted)]
                              = emitted[Len(emitted)] \o " " \o Stripped(Head(lines))
                   ELSE SubSeq(after, 1, Len(emitted)) = emitted
      ]_vars

\* the step appends one action with the given text and leaves the others
AppendsOne(text) ==
    /\ Len(actions') = Len(actions) + 1
    /\ SubSeq(actions', 1, Len(actions)) = actions
    /\ actions'[Len(actions')].text = text

\* C15 as stated: a line prefixed by a bullet or a number, with at least 10
\* characters left after its decoration is removed and passing the filters,
\* yields exactly one action whose text is the line without the decoration;
\* with fewer than 10 characters left it yields nothing.
C15BulletedLineYieldsOneAction ==
    [][(pc = "lines" /\ lines # << >> /\ IsBulletLine(strip(Head(lines)))) =>
          \A line_clean \in {Stripped(Head(lines))} :
             IF Len(line_clean) < 10 THEN actions' = actions
             ELSE PassesFilters(Head(lines)) => AppendsOne(line_clean)
      ]_vars

\* C15, amended: a line prefixed by a bullet or a number, with at least 10
\* characters left after its decoration is removed and passing the filters,
\* yields exactly one action whose text is the line without the decoration if
\* that text was not emitted on the slide before, and nothing if it was; with
\* fewer than 10 characters left it yields nothing.
C15BulletedLineYieldsOneActionOnce ==
    [][(pc = "lines" /\ lines # << >> /\ IsBulletLine(strip(Head(lines)))) =>
          \A line_clean \in {Stripped(Head(lines))} :
             IF Len(line_clean) < 10 THEN actions' = actions
             ELSE PassesFilters(Head(lines)) =>
                     IF line_clean \in seen THEN actions' = actions
                     ELSE AppendsOne(line_clean)
      ]_vars

\* the bulleted line "- dla novyh zadax" has been read twice on the slide and
\* the numbered line "12) Kod tut" once on an earlier slide of the competency
C15Witness ==
    /\ pc = "lines"
    /\ lines = << >>
    /\ \E i \in 1..(slide_idx - 1) :
          "12) Kod tut" \in Range(SlideLines(i))
    /\ Cardinality({k \in DOMAIN SlideLines(slide_idx) :
                       SlideLines(slide_idx)[k] = "- dla novyh zadax"}) = 2
    /\ Cardinality({k \in DOMAIN actions : actions[k].text = "dla novyh zadax"}) = 1

----------------------------------------------------------------------------
(* Properties of the slide walk.                                           *)

\* C16: a slide that is passed over (title, contents, resources, glossary)
\* leaves the active competency, the running level, the running type and
\* every ActionSet as they were, wherever it stands in the presentation.
C16SkipSlideChangesNothing ==
    [][(pc = "walk" /\ slide_idx <= Len(prs) /\ IsSkipSlide(prs[slide_idx])) =>
          /\ all_actions' = all_actions
          /\ current_competency' = current_competency
          /\ current_level' = current_level
          /\ current_type' = current_type
      ]_vars

\* a slide has been passed over while a competency was active with a level,
\* a type and actions
C16Witness ==
    /\ pc = "walk"
    /\ slide_idx > 2
    /\ IsSkipSlide(prs[slide_idx - 1])
    /\ current_competency # None
    /\ current_level # None
    /\ current_type # None
    /\ \E s \in DOMAIN all_actions : all_actions[s].all_actions # << >>

\* C17: on a slide that is not passed over and yields a competency name, the
\* competency of that name's key becomes the active one, the running level and
\* the running type become unset, every ActionSet there was stays as it is,
\* and an empty ActionSet is added under the key only if the key had none;
\* no step of the walk removes an ActionSet or an action filed in one.
C17EnteringCompetencyResetsAndKeeps ==
    [][/\ \A i \in DOMAIN all_actions :
             /\ i \in DOMAIN all_actions'
             /\ all_actions'[i].key = all_actions[i].key
             /\ Len(all_actions'[i].all_actions) >= Len(all_actions[i].all_actions)
             /\ SubSeq(all_actions'[i].all_actions, 1, Len(all_actions[i].all_actions))
                   = all_actions[i].all_actions
       /\ (pc = "walk" /\ slide_idx <= Len(prs) /\ ~IsSkipSlide(prs[slide_idx])) =>
          \A found \in {extract_competency_name_from_slide(prs[slide_idx], Known)} :
             (found # None /\ found # "") =>
                \A comp_key \in {normalize_key(found)} :
                   /\ current_competency' \in {found} \cup {KNOWN_COMPETENCIES[i].name :
                                                              i \in DOMAIN KNOWN_COMPETENCIES}
                   /\ \A active \in {current_competency'} :
                         normalize_key(active) = comp_key
                   /\ current_level' = None
                   /\ current_type' = None
                   /\ SubSeq(all_actions', 1, Len(all_actions)) = all_actions
                   /\ IF HasKey(all_actions, comp_key)
                      THEN Len(all_actions') = Len(all_actions)
                      ELSE /\ Len(all_actions') = Len(all_actions) + 1
                           /\ all_actions'[Len(all_actions')].key = comp_key
                           /\ all_actions'[Len(all_actions')].all_actions = << >>
                           /\ all_actions'[Len(all_actions')].actions_by_level = << >>
      ]_vars

\* the slide just entered names the competency that was active already, whose
\* ActionSet holds actions at level 2: level and type are unset again
C17Witness ==
    /\ pc = "lines"
    /\ slide_idx > 1
    /\ actions = << >>
    /\ lines = SlideLines(slide_idx)
    /\ extract_competency_name_from_slide(prs[slide_idx], Known) = current_competency
    /\ extract_competency_name_from_slide(prs[slide_idx - 1], Known) = current_competency
    /\ current_level = None
    /\ current_type = None
    /\ "2" \in DOMAIN CurrentSet(all_actions).actions_by_level

\* the slide the walk is at names no competency
NoCandidate ==
    extract_competency_name_from_slide(prs[slide_idx], Known) \in {None, ""}

\* the action objects of the actions, in order
ActionObjects(acts) ==
    [i \in DOMAIN acts |-> [text |-> acts[i].text, type |-> acts[i].type]]

\* C18: on a slide that is not passed over and names no competency, the
\* active competency, the running level and the running type are those the
\* previous slide left and extraction starts from them; an action emitted
\* before any level marker of the slide carries the level the earlier slides
\* left; and when the slide is left its actions are appended, in order, to the
\* ActionSet of the competency that was active, no other ActionSet changing.
C18NoCandidateCarriesOver ==
    [][/\ (pc = "walk" /\ slide_idx <= Len(prs) /\ ~IsSkipSlide(prs[slide_idx])
           /\ NoCandidate) =>
             /\ current_competency' = current_competency
             /\ current_level' = current_level
             /\ current_type' = current_type
             /\ all_actions' = all_actions
             /\ IF current_competency # None
                THEN /\ pc' = "lines"
                     /\ level' = current_level
                     /\ action_type' = current_type
                     /\ actions' = << >>
                ELSE pc' = "walk" /\ slide_idx' = slide_idx + 1
       /\ (pc = "lines" /\ lines # << >>) =>
             \A k \in DOMAIN actions' \ DOMAIN actions :
                NoCandidate =>
                   \A read \in {ReadOnSlide} :
                      LastLevel(read, Len(read)) = None
                      => actions'[k].level = current_level
       /\ (pc = "lines" /\ lines = << >> /\ NoCandidate) =>
             \A k \in {KeyIndex(all_actions, normalize_key(current_competency))} :
                /\ current_competency' = current_competency
                /\ Len(all_actions') = Len(all_actions)
                /\ \A i \in DOMAIN all_actions : i # k => all_actions'[i] = all_actions[i]
                /\ all_actions'[k].all_actions
                      = all_actions[k].all_actions \o ActionObjects(actions)
      ]_vars

\* a slide that names no competency is being read for the competency of an
\* earlier slide: no level marker on it, and its first action carries the
\* level 2 that the earlier slide set
C18Witness ==
    /\ pc = "lines"
    /\ slide_idx > 1
    /\ NoCandidate
    /\ \A i \in DOMAIN SlideLines(slide_idx) : ~IsLevelMarker(SlideLines(slide_idx)[i])
    /\ current_level = "2"
    /\ actions # << >>
    /\ actions[1].level = "2"

\* the canonical competency of the given id
CanonicalOf(id) ==
    model_data.competencies[CHOOSE i \in DOMAIN model_data.competencies :
                               model_data.competencies[i].id = id]

\* C19: a raw ActionSet whose name find_best_match resolves to a canonical
\* competency, by equal keys, by containment or by similarity at or above
\* the threshold, is stored by the walk under the key of that competency.
C19VariantsStoredUnderCanonicalKey ==
    \A s \in DOMAIN all_actions :
        \A r \in {find_best_match(all_actions[s].competency_name, all_actions[s].key,
                                  model_data.competencies, DefaultThreshold)} :
            r[1] # None => all_actions[s].key = normalize_key(CanonicalOf(r[1]).name)

\* the types whose indicator occurs in the lowered text of the slide
\* (has70, has20, has10 of lines 161-163)
IndicatorsIn(joined_text) ==
    {t \in TypeKeys :
        \/ HasPercentOrWord(joined_text, t)
        \/ Contains(joined_text, CASE t = "70" -> Phrase70
                                   [] t = "20" -> Phrase20
                                   [] t = "10" -> Phrase10)}

\* the type of the only indicator on the slide, "70" if the slide has none or
\* more than one
SlideDefault(slide) ==
    CHOOSE d \in TypeKeys :
        \A found \in {IndicatorsIn(JoinedLower(AllTextFrom(slide, 1)))} :
            IF Cardinality(found) = 1 THEN d \in found ELSE d = "70"

\* C20: an action emitted while no type-marker line has been read since the
\* competency became active has the type of the only type indicator on the
\* slide its line is on, and "70" if that slide has none or more than one, on
\* every slide of the competency.
C20UnmarkedActionsTakeSlideDefault ==
    [][(pc = "lines" /\ lines # << >>) =>
          \A k \in DOMAIN actions' \ DOMAIN actions :
             \A read \in {LinesRead} :
                LastType(read, Len(read)) = None
                => actions'[k].type = SlideDefault(prs[slide_idx])
      ]_vars

----------------------------------------------------------------------------
(* Properties of clean_text.                                               *)

\* C24: whatever the text, the value clean_text returns holds no vertical
\* tab and no carriage return, no two adjacent characters that are spaces
\* or tabs, no two adjacent line breaks, no white space at either end and,
\* when keep_linebreaks is false, no line break at all; and clean_text
\* applied to that value in the same mode returns it unchanged.
C24CleanTextIsCleanAndIdempotent ==
    clean_call.called =>
        \A v \in {clean_call.value} :
            /\ \A i \in 1..Len(v) : CharAt(v, i) \notin {"\f", "\r"}
            /\ \A i \in 1..(Len(v) - 1) :
                  /\ ~(CharAt(v, i) \in {" ", "\t"} /\ CharAt(v, i + 1) \in {" ", "\t"})
                  /\ ~(CharAt(v, i) = "\n" /\ CharAt(v, i + 1) = "\n")
            /\ v # "" => ~IsSpace(CharAt(v, 1)) /\ ~IsSpace(CharAt(v, Len(v)))
            /\ ~clean_call.keep_linebreaks => \A i \in 1..Len(v) : CharAt(v, i) # "\n"
            /\ clean_text(v, clean_call.keep_linebreaks) = v

\* a text with a vertical tab, a tab and a carriage return, cleaned in
\* single-line mode and in multi-line mode
C24Witness ==
    /\ clean_call.called
    /\ clean_call.text = "\fa\t\ra"
    /\ \/ ~clean_call.keep_linebreaks /\ clean_call.value = "a a"
       \/ clean_call.keep_linebreaks /\ clean_call.value = "a \na"

----------------------------------------------------------------------------
(* Properties of the scripts' failure paths.                               *)

\* C21: when the presentation or model.json is missing no file is ever
\* written; in particular extract_pptx.py writes no actions.json when
\* model.json is absent.
C21NothingWrittenWithoutInputs ==
    inputs # InputFiles => written = << >>

\* the slide without the shapes whose position cannot be read
WithoutUnreadable(slide) ==
    [slide EXCEPT !.shapes =
        SelectSeq(@, LAMBDA shape : shape.top # NoPosition /\ shape.left # NoPosition)]

\* C22: a shape whose position cannot be read is passed over alone: the
\* iteration of the walk that meets it goes on to the next slide, having
\* filed what the other shapes of the slide hold, and the script does not
\* end on it.
C22UnreadableShapeSkippedAlone ==
    [][(pc = "walk" /\ slide_idx <= Len(prs)) =>
          /\ pc' = "walk"
          /\ slide_idx' = slide_idx + 1
          /\ \A w \in {WalkStep(Walk, WithoutUnreadable(prs[slide_idx]), Known)} :
                /\ all_actions' = w.all_actions
                /\ current_competency' = w.current_competency
                /\ current_level' = w.current_level
                /\ current_type' = w.current_type
      ]_vars

----------------------------------------------------------------------------
(* Properties of the alias table.                                          *)

\* C23: a raw set whose normalized key is an alias key, or starts with one,
\* is attached to the canonical competency whose id is the alias's target
\* key whenever the canonical list has that competency, whatever entries
\* come before it in the list.
C23AliasedSetAttachedToTarget ==
    pc \in {"merge", "done"} =>
        \A k \in 1..(action_idx - 1) :
            \A key \in {normalize_key(OriginalSets[k].competency_name)} :
                (/\ key = AliasKey \/ startswith(key, AliasKey)
                 /\ AliasTarget \in CompIds)
                    => AliasTarget \in AccumulatorsOf(k)

----------------------------------------------------------------------------
(* Properties of the order of the line tests.                              *)

\* C25: a line on which both the level pattern and a type indicator match
\* sets the running level only and leaves the running type as it is; and a
\* marker line of fewer than 10 characters sets the running level or the
\* running type all the same, the length test coming after the markers.
C25LevelMarkerFirstLengthLast ==
    [][(pc = "lines" /\ lines # << >>) =>
          \A line \in {clean_text(Head(lines), FALSE)} :
             \A s \in {lower(line)} :
                /\ (LevelMatchStarts(s) # {} /\ IndicatedType(s) # None) =>
                      /\ level' = LevelMatchDigit(s)
                      /\ action_type' = action_type
                /\ (line # "" /\ Len(line) < 10) =>
                      IF LevelMatchStarts(s) # {}
                      THEN level' = LevelMatchDigit(s)
                      ELSE IndicatedType(s) # None => action_type' = IndicatedType(s)
      ]_vars

\* on a later slide of a competency whose level the 9-character line
\* "Urovenq 2" had set, the line "Urovenq 4 - 20%" has been read: the level
\* is 4 and the type is still 70
C25Witness ==
    /\ pc = "lines"
    /\ current_level = "2"
    /\ level = "4"
    /\ action_type = "70"
    /\ lines = <<"v konce nedeli", "10%", "po vsem zadaxam">>

----------------------------------------------------------------------------
(* Properties of the continuation merge.                                   *)

\* C26: a line merged into the slide's last action changes that action's
\* text only: the action keeps the level and the type it was created with,
\* whatever the running level and type have become since, every other action
\* stays as it is and no action is added; and when the slide is left the
\* ActionSet gains one entry per action of the slide, none for a merged line.
C26MergeChangesTextOnly ==
    [][/\ (/\ pc = "lines" /\ lines # << >> /\ actions # << >>
           /\ ContinuationOf(actions[Len(actions)].text, Head(lines))) =>
             /\ Len(actions') = Len(actions)
             /\ \A k \in 1..(Len(actions) - 1) : actions'[k] = actions[k]
             /\ actions'[Len(actions)].level = actions[Len(actions)].level
             /\ actions'[Len(actions)].type = actions[Len(actions)].type
             /\ actions'[Len(actions)].text
                   = actions[Len(actions)].text \o " " \o Stripped(Head(lines))
             /\ all_actions' = all_actions
       /\ (pc = "lines" /\ lines = << >>) =>
             /\ Len(CurrentSet(all_actions').all_actions)
                   = Len(CurrentSet(all_actions).all_actions) + Len(actions)
             /\ \A k \in DOMAIN actions :
                   CurrentSet(all_actions').all_actions
                       [Len(CurrentSet(all_actions).all_actions) + k]
                     = [text |-> actions[k].text, type |-> actions[k].type]
      ]_vars

\* an action created at level 3 with type 70 has absorbed a line read after
\* the level marker 4 and another read after the type marker 10%
C26Witness ==
    /\ pc = "lines"
    /\ level = "4"
    /\ action_type = "10"
    /\ actions # << >>
    /\ actions[Len(actions)] =
          [text |-> "i proveritq ih vse do konca dna v konce nedeli po vsem zadaxam",
           level |-> "3", type |-> "70"]

----------------------------------------------------------------------------
(* Properties of the state carried from slide to slide.                    *)

\* the number of actions the active competency's ActionSet held when the
\* competency became active
FiledBeforeScope ==
    CHOOSE n \in {IF HasKey(w.all_actions, normalize_key(current_competency))
                  THEN Len(w.all_actions[KeyIndex(w.all_actions,
                                                  normalize_key(current_competency))
                           ].all_actions)
                  ELSE 0 :
                     w \in {WalkOver(prs, ScopeStart - 1, Known)}} : TRUE

\* the texts filed for the active competency on the earlier slides of the
\* scope it is in
FiledInScope ==
    CHOOSE texts \in {{set.all_actions[i].text :
                          i \in (FiledBeforeScope + 1)..Len(set.all_actions)} :
                             set \in {CurrentSet(all_actions)}} : TRUE

\* C27 as stated: an action is never created with a text that was filed for
\* the active competency on an earlier slide of the same scope.
C27TextOfScopeNotRecordedAgain ==
    [][(pc = "lines" /\ lines # << >> /\ Len(actions') > Len(actions)) =>
          actions'[Len(actions')].text \notin FiledInScope
      ]_vars

\* C27, amended: the running level and type are handed from slide to slide
\* of a scope, the set `seen` is not: it is empty whenever a slide is entered
\* and holds the texts of the actions created on that slide only, so a line
\* that passes the filters and is not merged into the slide's last action
\* creates an action unless its text was created on the same slide before,
\* also when that text was filed on an earlier slide of the scope.
C27SeenStartsEmptyOnEverySlide ==
    [][/\ (pc = "walk" /\ pc' = "lines") =>
             /\ seen' = {}
             /\ level' = current_level'
             /\ action_type' = current_type'
             /\ NoCandidate =>
                   /\ current_level' = current_level
                   /\ current_type' = current_type
       /\ (pc = "lines" /\ lines # << >>) =>
             /\ seen' = seen \cup {actions'[k].text : k \in DOMAIN actions' \ DOMAIN actions}
             /\ (/\ PassesFilters(Head(lines))
                 /\ ~(/\ actions # << >>
                      /\ ContinuationOf(actions[Len(actions)].text, Head(lines)))) =>
                   \A line_clean \in {Stripped(Head(lines))} :
                      IF line_clean \in seen THEN actions' = actions
                      ELSE AppendsOne(line_clean)
      ]_vars

\* on a later slide of the scope an action has been created with a text
\* that an earlier slide of the scope had filed
C27Witness ==
    /\ pc = "lines"
    /\ actions # << >>
    /\ actions[1].text = "Napisatq testy k kodu"
    /\ "Napisatq testy k kodu" \in FiledInScope

\* C28: when the last action filed for the active competency on an earlier
\* slide of the scope does not end in '.', '!' or '?', and the first line of
\* the slide that reaches the action stage is not bullet-prefixed and has at
\* most 4 words, the line creates no action of its own (it is appended to
\* that earlier action).
C28FirstLineContinuesEarlierSlide ==
    [][(pc = "lines" /\ lines # << >> /\ actions = << >> /\ seen = {}) =>
          \A set \in {CurrentSet(all_actions)} :
             (/\ Len(set.all_actions) > FiledBeforeScope
              /\ ContinuationOf(set.all_actions[Len(set.all_actions)].text, Head(lines)))
                => actions' = << >>
      ]_vars

\* C29: merge_data leaves every raw set of actions.json as it was loaded (its
\* actions_by_level, actions_by_type and all_actions lists), also when two or
\* more raw sets resolve to the same canonical competency.
C29RawSetsUnchangedByMerge ==
    pc \in {"merge", "done"} => actions_data = LastWritten("actions.json")

\* the title placeholder of the slide is a known cluster or block name, or
\* holds a type phrase
TitleOfClusterBlockOrType(slide) ==
    /\ slide.title # 0
    /\ \A title \in {TitleText(slide)} :
          \/ normalize_key(title) \in KNOWN_CLUSTERS \cup KNOWN_BLOCKS
          \/ HasTypePhrase(lower(title))

\* the slide yields no name, the competency that was active stays active
\* with its running level and type, and the actions of the slide are filed
\* under it
KeepsEntityAndFilesUnderIt(slide) ==
    /\ extract_competency_name_from_slide(slide, Known) = None
    /\ current_competency' = current_competency
    /\ \A w \in {CollectActions([all_actions |-> all_actions,
                                 current_competency |-> current_competency,
                                 current_level |-> current_level,
                                 current_type |-> current_type],
                                slide, Known)} :
          /\ all_actions' = w.all_actions
          /\ current_level' = w.current_level
          /\ current_type' = w.current_type

\* C30: when the title of a slide matches a known cluster or block name, or
\* contains a type phrase, the name extractor returns no candidate without
\* trying the text shapes or the whole-slide search, the competency that was
\* active stays active and the actions of the slide are filed under it.
C30ClusterBlockOrTypeTitleKeepsEntity ==
    [][(pc = "walk" /\ slide_idx <= Len(prs)) =>
          \A slide \in {prs[slide_idx]} :
             TitleOfClusterBlockOrType(slide) => KeepsEntityAndFilesUnderIt(slide)
      ]_vars

\* C30, amended: the same for a slide that is not passed over and whose
\* title key is not a known competency key; a passed-over slide changes
\* nothing, and a title whose key is a known competency key opens the scope
\* of that competency under its canonical name.
C30ClusterBlockOrTypeTitleAfterCompetencyTest ==
    [][(pc = "walk" /\ slide_idx <= Len(prs)) =>
          \A slide \in {prs[slide_idx]} :
             TitleOfClusterBlockOrType(slide) =>
                \A title_key \in {normalize_key(TitleText(slide))} :
                   IF IsSkipSlide(slide)
                   THEN UNCHANGED <<all_actions, current_competency,
                                    current_level, current_type>>
                   ELSE IF InKnownCompetencies(Known, title_key)
                   THEN current_competency' = KnownCompetencyName(Known, title_key)
                   ELSE KeepsEntityAndFilesUnderIt(slide)
      ]_vars

\* the slide titled with the block name has been walked in the scope of
\* 'Kod b' and its action is in the set of 'Kod b'
C30Witness ==
    /\ pc = "walk"
    /\ slide_idx > 1
    /\ TitleText(prs[slide_idx - 1]) = "Blok 1"
    /\ current_competency = "Kod b"
    /\ \E s \in DOMAIN all_actions :
          /\ all_actions[s].key = "kod_b"
          /\ \E a \in DOMAIN all_actions[s].all_actions :
                all_actions[s].all_actions[a].text = "Sostavitq plan rabot."

\* the slide reaches the whole-slide search: it is not passed over, its title
\* decides nothing and none of its first text shapes yields a name
ReachesWholeSlideSearch(slide) ==
    /\ ~IsSkipSlide(slide)
    /\ ~NameFromTitle(slide, Known).decided
    /\ NameFromTexts(Take(TextShapesFrom(slide, 1), 3), Known) = None

\* the known competencies whose normalized name is part of joined_norm
NamedIn(joined_norm) ==
    {i \in DOMAIN KNOWN_COMPETENCIES :
        /\ KNOWN_COMPETENCIES[i].norm # ""
        /\ Contains(joined_norm, KNOWN_COMPETENCIES[i].norm)}

\* C31: in the whole-slide search, when the normalized text of the slide
\* contains several known competency names, the name returned (and entered
\* by the walk) is the one with the longest normalized name, the first
\* declared among those of equal length: a short name never shadows a longer
\* one that contains it.
C31LongestContainedNameWins ==
    [][(pc = "walk" /\ slide_idx <= Len(prs)) =>
          \A slide \in {prs[slide_idx]} :
             ReachesWholeSlideSearch(slide) =>
                \A named \in {NamedIn(normalize_key(join(" ", SlideTextsFrom(slide, 1))))} :
                   IF named = {}
                   THEN current_competency' = current_competency
                   ELSE \E i \in named :
                           /\ \A j \in named :
                                 \/ Len(KNOWN_COMPETENCIES[j].norm) < Len(KNOWN_COMPETENCIES[i].norm)
                                 \/ /\ Len(KNOWN_COMPETENCIES[j].norm) = Len(KNOWN_COMPETENCIES[i].norm)
                                    /\ i <= j
                           /\ extract_competency_name_from_slide(slide, Known) =
                                 KNOWN_COMPETENCIES[i].name
                           /\ current_competency' = KNOWN_COMPETENCIES[i].name
      ]_vars

\* the slide naming 'Kod b' and 'Kod c' has been walked with 'Kod' declared
\* first and 'Kod c' before 'Kod b': the scope entered is that of 'Kod c'
C31Witness ==
    /\ pc = "walk"
    /\ slide_idx > 1
    /\ prs[slide_idx - 1].shapes = <<TableShape(1, 0, <<"Razobratq Kod b i Kod c.">>)>>
    /\ Len(KNOWN_COMPETENCIES) = 3
    /\ KNOWN_COMPETENCIES[1].name = "Kod c"
    /\ KNOWN_COMPETENCIES[3].name = "Kod"
    /\ current_competency = "Kod c"

\* no two shapes of the slide have the same (top, left)
DistinctPositions(slide) ==
    \A i, j \in DOMAIN slide.shapes :
        i # j => <<slide.shapes[i].top, slide.shapes[i].left>> #
                 <<slide.shapes[j].top, slide.shapes[j].left>>

\* the slide with its shapes stored in every order
Permuted(slide) ==
    {[slide EXCEPT !.shapes = [i \in DOMAIN slide.shapes |-> slide.shapes[p[i]]]] :
        p \in {q \in [DOMAIN slide.shapes -> DOMAIN slide.shapes] :
                  Range(q) = DOMAIN slide.shapes}}

\* C32: within a slide the texts are classified in (top, left) order whatever
\* the order of the shapes in the slide: storing shapes of distinct positions
\* in another order changes neither the actions extract_actions_from_slide
\* returns nor the running type and level it returns.
C32ShapeOrderDoesNotMatter ==
    (pc = "walk" /\ slide_idx <= Len(prs)) =>
       \A slide \in {prs[slide_idx]} :
          (~IsSkipSlide(slide) /\ DistinctPositions(slide)) =>
             \A w \in {EnterCompetency([all_actions |-> all_actions,
                                        current_competency |-> current_competency,
                                        current_level |-> current_level,
                                        current_type |-> current_type],
                                       extract_competency_name_from_slide(slide, Known),
                                       Known)} :
                (w.current_competency # None /\ w.current_competency # "") =>
                   \A r \in {extract_actions_from_slide(slide, w.current_competency,
                                                        w.current_type, w.current_level,
                                                        Known)} :
                      \A other \in Permuted(slide) :
                         extract_actions_from_slide(other, w.current_competency,
                                                    w.current_type, w.current_level,
                                                    Known) = r

\* C33: the walk starts with no active competency; while none is active (no
\* slide has yet yielded a name) no ActionSet exists and no line is read for
\* actions, whatever the slides hold; the active competency changes only on
\* a slide that yields a name and never while the lines of a slide are read;
\* and the actions of a slide are filed only in the ActionSet of the
\* competency that was active while its lines were read.
C33NothingRecordedWithoutEntity ==
    /\ current_competency = None /\ all_actions = << >> /\ actions = << >>
    /\ [][/\ current_competency' = None =>
                /\ all_actions' = << >>
                /\ actions' = << >>
                /\ pc' # "lines"
          /\ current_competency' # current_competency =>
                /\ pc = "walk"
                /\ ~IsSkipSlide(prs[slide_idx])
                /\ ~NoCandidate
          /\ (pc = "walk" /\ pc' # "extracted") =>
                /\ \A i \in DOMAIN all_actions : all_actions'[i] = all_actions[i]
                /\ \A i \in DOMAIN all_actions' \ DOMAIN all_actions :
                      /\ all_actions'[i].all_actions = << >>
                      /\ all_actions'[i].key = normalize_key(current_competency')
          /\ (pc = "lines" /\ lines # << >>) => all_actions' = all_actions
          /\ (pc = "lines" /\ lines = << >>) =>
                /\ DOMAIN all_actions' = DOMAIN all_actions
                /\ \A i \in DOMAIN all_actions :
                      IF all_actions[i].key = normalize_key(current_competency)
                      THEN all_actions'[i].all_actions =
                              all_actions[i].all_actions \o ActionObjects(actions)
                      ELSE all_actions'[i] = all_actions[i]
         ]_vars

\* two slides that are not passed over and hold action lines have been
\* walked with no competency active, and nothing was recorded
C33Witness ==
    /\ pc = "walk"
    /\ slide_idx = 3
    /\ ~IsSkipSlide(prs[1])
    /\ ~IsSkipSlide(prs[2])
    /\ extract_actions_from_slide(prs[2], "Kod b", None, None, Known).actions # << >>
    /\ current_competency = None
    /\ all_actions = << >>

\* C34: every action the walk records has a type among "70", "20" and "10",
\* never an unset one, in the list of the slide being read and in every
\* raw ActionSet; so in every raw ActionSet the three type buckets together
\* hold exactly as many actions as all_actions.
C34EveryActionHasAKnownType ==
    /\ \A k \in DOMAIN actions : actions[k].type \in TypeKeys
    /\ \A s \in DOMAIN all_actions :
          \A set \in {all_actions[s]} :
             /\ \A k \in DOMAIN set.all_actions : set.all_actions[k].type \in TypeKeys
             /\ DOMAIN set.actions_by_type = TypeKeys
             /\ Len(set.actions_by_type["70"]) + Len(set.actions_by_type["20"])
                   + Len(set.actions_by_type["10"]) = Len(set.all_actions)

\* the only slide, which holds no type marker and no type indicator, has
\* been walked and its actions are filed
C34Witness ==
    /\ pc = "extracted"
    /\ Len(prs) = 1
    /\ TitleText(prs[1]) = "Kod b"
    /\ DefaultType(JoinedLower(AllTextFrom(prs[1], 1)), None) = None
    /\ Len(all_actions) = 1
    /\ Len(all_actions[1].all_actions) >= 2

\* C35: a line that reaches the action stage while the running type is unset
\* sets the running type itself to the default type of the slide, or to "70"
\* when the slide has none; the running type then changes only at a
\* type-marker line or on a slide that yields a competency name: it is kept
\* by every other line, handed on when the slide is left, kept by a slide
\* that is passed over, and on a later slide of the competency it is both
\* the type extraction starts from and the default type of that slide, which
\* is not computed from the slide's own indicators.
C35FallbackTypeBecomesRunningType ==
    [][/\ (pc = "lines" /\ lines # << >>) =>
             /\ default_type' = default_type
             /\ IF IsTypeMarker(Head(lines))
                THEN action_type' = MarkerType(Head(lines))
                ELSE IF action_type = None /\ PassesFilters(Head(lines))
                THEN action_type' = IF default_type \in TypeKeys THEN default_type
                                    ELSE "70"
                ELSE action_type' = action_type
       /\ (pc = "lines" /\ lines = << >>) => current_type' = action_type
       /\ (pc = "walk" /\ slide_idx <= Len(prs)) =>
             IF ~IsSkipSlide(prs[slide_idx]) /\ ~NoCandidate
             THEN current_type' = None
             ELSE /\ current_type' = current_type
                  /\ pc' = "lines" =>
                        /\ action_type' = current_type
                        /\ current_type # None => default_type' = current_type
      ]_vars

\* the second slide, which names no competency and whose only indicator is
\* that of type 20, is being read after a slide of 'Kod b' without any
\* indicator: its default type and the type of its first action are "70"
C35Witness ==
    /\ pc = "lines"
    /\ slide_idx = 2
    /\ TitleText(prs[1]) = "Kod b"
    /\ NoCandidate
    /\ DefaultType(JoinedLower(AllTextFrom(prs[2], 1)), None) = "20"
    /\ current_type = "70"
    /\ default_type = "70"
    /\ actions # << >>
    /\ actions[1].type = "70"

====
